---- MODULE Spec2Model ----
(***************************************************************************)
(* Model of the resilient request core of moviebox-js-sdk:                 *)
(* MovieboxSession (src/src/session.ts) - mirror fallback, retry sub-loop, *)
(* cookie capture/replay, one-time cookie priming, envelope unwrapping.    *)
(*                                                                         *)
(* Strings that the code parses or formats (Set-Cookie values, the Cookie  *)
(* header) are sequences of one-character strings.  Base URLs are named by *)
(* their index in the session's baseUrls list (0-based, as in the code).   *)
(* An asynchronous call is cut at its suspension points: the transport     *)
(* call, the retry delay and the body read.                                *)
(***************************************************************************)
EXTENDS Integers, Sequences, FiniteSets, TLC

\* ------------------------------------------------------------------ bounds
MaxBaseUrls == 2
MaxConfiguredAttempts == 2
MaxTotal == 10         \* largest start offset and total size given to buildRanges
MaxChunk == 4          \* largest chunk size given to buildRanges
MaxUnits == 3          \* largest remote file, in units of UnitBytes

\* ------------------------------------------------------- program constants
DEFAULT_MAX_RETRIES == 2

\* --------------------------------------------------------- string helpers
Whitespace == {" "}

RECURSIVE IndexOf(_, _, _)
\* String.prototype.indexOf from position i (1-based); 0 when absent.
IndexOf(s, ch, i) ==
  IF i > Len(s) THEN 0
  ELSE IF s[i] = ch THEN i
  ELSE IndexOf(s, ch, i + 1)

\* cookie.split(ch)[0]
BeforeFirst(s, ch) ==
  LET k == IndexOf(s, ch, 1)
  IN IF k = 0 THEN s ELSE SubSeq(s, 1, k - 1)

\* pair.split(ch).slice(1).join(ch): everything after the first ch, "" if none
AfterFirst(s, ch) ==
  LET k == IndexOf(s, ch, 1)
  IN IF k = 0 THEN <<>> ELSE SubSeq(s, k + 1, Len(s))

RECURSIVE TrimStart(_)
TrimStart(s) ==
  IF s # <<>> /\ Head(s) \in Whitespace THEN TrimStart(Tail(s)) ELSE s

RECURSIVE TrimEnd(_)
TrimEnd(s) ==
  IF s # <<>> /\ s[Len(s)] \in Whitespace
  THEN TrimEnd(SubSeq(s, 1, Len(s) - 1))
  ELSE s

\* String.prototype.trim
Trim(s) == TrimEnd(TrimStart(s))

RECURSIVE Join(_, _)
\* Array.prototype.join
Join(parts, sep) ==
  IF parts = <<>> THEN <<>>
  ELSE IF Len(parts) = 1 THEN parts[1]
  ELSE parts[1] \o sep \o Join(Tail(parts), sep)

\* --------------------------------------------------------------- cookie jar
\* The jar is a Map<string,string>: a sequence of <<name, value>> entries in
\* insertion order, names pairwise distinct.
RECURSIVE JarIndex(_, _, _)
JarIndex(jar, name, i) ==
  IF i > Len(jar) THEN 0
  ELSE IF jar[i][1] = name THEN i
  ELSE JarIndex(jar, name, i + 1)

\* Map.prototype.set: replaces in place, or appends
JarSet(jar, name, value) ==
  LET k == JarIndex(jar, name, 1)
  IN IF k = 0 THEN Append(jar, <<name, value>>)
     ELSE [jar EXCEPT ![k] = <<name, value>>]

\* Map.prototype.delete
JarDelete(jar, name) ==
  LET k == JarIndex(jar, name, 1)
  IN IF k = 0 THEN jar
     ELSE SubSeq(jar, 1, k - 1) \o SubSeq(jar, k + 1, Len(jar))

\* getSetCookieValues: header values as a list when the Headers object has
\* raw(); otherwise headers.get('set-cookie'), which is the values joined by
\* ", " (absent when there is none, and dropped when the joined string is "").
getSetCookieValues(headers) ==
  IF headers.raw THEN headers.setCookie
  ELSE LET single == Join(headers.setCookie, <<",", " ">>)
       IN IF headers.setCookie = <<>> \/ single = <<>> THEN <<>> ELSE <<single>>

\* (variant: the attributes after the first ";" are not cut off)
StoreOneCookie_KeepAttributes(jar, cookie) ==
  LET pair == cookie
      name == Trim(BeforeFirst(pair, "="))
      value == Trim(AfterFirst(pair, "="))
  IN IF pair = <<>> THEN jar
     ELSE IF name = <<>> THEN jar
     ELSE IF value = <<>> THEN JarDelete(jar, name)
     ELSE JarSet(jar, name, value)

\* (variant: an empty value is stored like any other)
StoreOneCookie_NoExpiry(jar, cookie) ==
  LET pair == BeforeFirst(cookie, ";")
      name == Trim(BeforeFirst(pair, "="))
      value == Trim(AfterFirst(pair, "="))
  IN IF pair = <<>> THEN jar
     ELSE IF name = <<>> THEN jar
     ELSE JarSet(jar, name, value)

\* One iteration of the loop of storeResponseCookies
StoreOneCookie(jar, cookie) ==
  LET pair == BeforeFirst(cookie, ";")
      name == Trim(BeforeFirst(pair, "="))
      value == Trim(AfterFirst(pair, "="))
  IN IF pair = <<>> THEN jar
     ELSE IF name = <<>> THEN jar
     ELSE IF value = <<>> THEN JarDelete(jar, name)
     ELSE JarSet(jar, name, value)

RECURSIVE StoreCookieList(_, _)
StoreCookieList(jar, cookies) ==
  IF cookies = <<>> THEN jar
  ELSE StoreCookieList(StoreOneCookie(jar, Head(cookies)), Tail(cookies))

\* storeResponseCookies(response)
storeResponseCookies(jar, headers) ==
  StoreCookieList(jar, getSetCookieValues(headers))

\* serializeCookies(jar)
serializeCookies(jar) ==
  Join([i \in 1..Len(jar) |-> jar[i][1] \o <<"=">> \o jar[i][2]], <<";", " ">>)

\* ------------------------------------------------------------- JSON values
\* A parsed JSON value: its type tag, number, string and (for objects) fields.
JNull == [t |-> "null", n |-> 0, s |-> "", f |-> <<>>]
JNum(n) == [t |-> "number", n |-> n, s |-> "", f |-> <<>>]
JStr(s) == [t |-> "string", n |-> 0, s |-> s, f |-> <<>>]
JArr == [t |-> "array", n |-> 0, s |-> "", f |-> <<>>]
JObj(f) == [t |-> "object", n |-> 0, s |-> "", f |-> f]

\* --------------------------------------------------------------- error kinds
TransportError == [name |-> "TypeError", message |-> <<"network error">>]

\* the error response.text() rejects with when the body cannot be read
BodyReadError == [name |-> "TypeError", message |-> <<"terminated">>]

MovieboxApiError(message) == [name |-> "MovieboxApiError", message |-> message]

MovieboxHttpError(message, status, url) ==
  [name |-> "MovieboxHttpError", message |-> message, status |-> status, url |-> url]

EmptyResponseError(url) ==
  [name |-> "EmptyResponseError", message |-> <<"empty response for", url>>]

UnsuccessfulResponseError(url, response) ==
  [name |-> "UnsuccessfulResponseError", message |-> <<"reported failure for", url>>,
   response |-> response]

GeoBlockedError(url, status) ==
  [name |-> "GeoBlockedError", message |-> <<"not available in your region for", url>>,
   status |-> status, url |-> url]

MirrorExhaustedError(failures) ==
  [name |-> "MirrorExhaustedError", message |-> <<"All Moviebox mirrors failed">>,
   failures |-> failures]

RetryLimitExceededError(message, attempts) ==
  [name |-> "RetryLimitExceededError", message |-> message, attempts |-> attempts]

\* ----------------------------------------------------- envelope unwrapping
\* (variant: the message of the envelope is not checked)
unwrapEnvelope_IgnoreMessage(payload, url) ==
  IF /\ payload.t \in {"object", "array"}
     /\ "code" \in DOMAIN payload.f
     /\ payload.f.code.t = "number"
  THEN IF /\ payload.f.code.n = 0
          /\ "data" \in DOMAIN payload.f
       THEN [throws |-> FALSE, value |-> payload.f.data]
       ELSE [throws |-> TRUE, error |-> UnsuccessfulResponseError(url, payload)]
  ELSE [throws |-> FALSE, value |-> payload]

\* unwrapEnvelope(payload, url): [throws, value] or [throws, error]
unwrapEnvelope(payload, url) ==
  IF /\ payload.t \in {"object", "array"}
     /\ "code" \in DOMAIN payload.f
     /\ payload.f.code.t = "number"
  THEN IF /\ payload.f.code.n = 0
          /\ "message" \in DOMAIN payload.f
          /\ payload.f.message = JStr("ok")
          /\ "data" \in DOMAIN payload.f
       THEN [throws |-> FALSE, value |-> payload.f.data]
       ELSE [throws |-> TRUE, error |-> UnsuccessfulResponseError(url, payload)]
  ELSE [throws |-> FALSE, value |-> payload]

\* ------------------------------------------------------------- retry policy
Max(a, b) == IF a >= b THEN a ELSE b

\* An optional number of the constructor options: defined or not.
Undefined == [defined |-> FALSE, value |-> 0]
Some(v) == [defined |-> TRUE, value |-> v]

\* the retry options are not recorded: the session does not keep them
OptionsNotRecorded == [recorded |-> FALSE]

\* constructor: configuredAttempts, then retryPolicy.maxAttempts
configuredAttempts(retryMaxAttempts, maxRetries) ==
  IF retryMaxAttempts.defined THEN retryMaxAttempts.value
  ELSE IF maxRetries.defined THEN Max(0, maxRetries.value) + 1
  ELSE DEFAULT_MAX_RETRIES + 1

\* (variant: the configured number is used as it is)
PolicyMaxAttempts_NoFloor(retryMaxAttempts, maxRetries) ==
  configuredAttempts(retryMaxAttempts, maxRetries)

PolicyMaxAttempts(retryMaxAttempts, maxRetries) ==
  Max(1, configuredAttempts(retryMaxAttempts, maxRetries))

\* (variant: only errors of the SDK are retried, not those of the transport)
DefaultErrorPredicate_TypedOnly(error) ==
  error.name = "MovieboxHttpError"

\* default errorPredicate of the constructor
DefaultErrorPredicate(error) ==
  ~(error.name \in {"GeoBlockedError", "MirrorExhaustedError"})

\* default responsePredicate of the constructor
DefaultResponsePredicate(status) ==
  \/ status >= 500
  \/ status = 429
  \/ status = 408

\* A predicate of the policy is the default one or a caller-supplied one;
\* caller-supplied predicates are represented by the two constant ones.
ErrorPredicateKinds == {"default", "never"}
ResponsePredicateKinds == {"default", "always"}

shouldRetryError(policy, error) ==
  CASE policy.shouldRetryError = "default" -> DefaultErrorPredicate(error)
    [] policy.shouldRetryError = "never" -> FALSE
    [] OTHER -> TRUE

shouldRetryResponse(policy, status) ==
  CASE policy.shouldRetryResponse = "default" -> DefaultResponsePredicate(status)
    [] policy.shouldRetryResponse = "never" -> FALSE
    [] OTHER -> TRUE

\* (variant: every status that is not a geo-block counts as success)
ResponseOk_Any(status) == TRUE

\* Response.ok
ResponseOk(status) == status >= 200 /\ status <= 299

\* (variant: 403 is not treated as a geo-block)
IsGeoStatus_Only451(status) == status = 451

\* the geo-block test of attemptWithRetries
IsGeoStatus(status) == status = 451 \/ status = 403

\* ------------------------------------------------------------------ inputs
APP_INFO_PATH == "/wefeed-h5-bff/app/get-latest-app-pkgs"
RESOURCE_PATH == "/resource"

\* Set-Cookie header values a server may send
SC_a1 == <<"a", "=", "1", ";", " ", "P", "a", "t", "h", "=", "/">>
SC_bExpired == <<"b", "=", ";", " ", "P", "a", "t", "h", "=", "/">>
SC_b2 == <<" ", "b", " ", "=", " ", "2">>
SC_noName == <<"=", "x">>

NoSetCookie == [setCookie |-> <<>>, raw |-> FALSE]

\* response headers of a 2xx response
OkHeaderChoices ==
  { NoSetCookie,
    [setCookie |-> <<SC_a1>>, raw |-> FALSE],
    [setCookie |-> <<SC_bExpired>>, raw |-> FALSE],
    [setCookie |-> <<SC_noName>>, raw |-> TRUE],
    [setCookie |-> <<SC_a1, SC_b2>>, raw |-> TRUE] }

\* response headers of a non-2xx response
FailHeaderChoices == { NoSetCookie, [setCookie |-> <<SC_b2>>, raw |-> FALSE] }

GeoStatuses == {451, 403}
FailStatuses == {404, 500}
OkStatuses == {200}
Statuses == OkStatuses \cup GeoStatuses \cup FailStatuses

HeaderChoices(status) ==
  IF status \in OkStatuses THEN OkHeaderChoices ELSE FailHeaderChoices

\* parsed bodies a JSON endpoint may answer with
Data == JObj([x |-> JNum(1)])
Payloads ==
  { JObj([code |-> JNum(0), message |-> JStr("ok"), data |-> Data]),
    JObj([code |-> JNum(0), message |-> JStr("ok")]),
    JObj([code |-> JNum(0), message |-> JStr("fail"), data |-> Data]),
    JObj([code |-> JNum(7), message |-> JStr("ok"), data |-> Data]),
    JObj([code |-> JStr("0"), message |-> JStr("ok"), data |-> Data]),
    Data,
    JArr,
    JNull }

\* await response.text(): it rejects (the body stream fails), or yields the
\* empty string, a text that is not JSON, or the serialization of a JSON value
Bodies ==
  { [text |-> "unreadable"], [text |-> "empty"], [text |-> "notjson"] }
    \cup { [text |-> "json", parsed |-> v] : v \in Payloads }

\* options.headers of a call: with or without a Cookie header of the caller's
Absent == [present |-> FALSE, value |-> <<>>]
Present(v) == [present |-> TRUE, value |-> v]
CallerCookie == <<"x", "=", "9">>
HeaderOptions == { [Cookie |-> Absent], [Cookie |-> Present(CallerCookie)] }

\* the public calls of a session
Operations ==
  { [kind |-> "fetchJson", requireCookies |-> FALSE, headers |-> h] :
      h \in HeaderOptions }
    \cup { [kind |-> "fetchJson", requireCookies |-> TRUE,
            headers |-> [Cookie |-> Absent]] }
    \cup { [kind |-> "fetchHtml", requireCookies |-> FALSE,
            headers |-> [Cookie |-> Absent]] }
    \cup { [kind |-> "ensureSessionCookies", requireCookies |-> FALSE,
            headers |-> [Cookie |-> Absent]] }

\* The callers of one session.  Sequential use has a single caller, whose
\* next call starts when its previous one has settled.
Callers == {1, 2}
SequentialCallers == {1}

\* ------------------------------------------------------------------- state
VARIABLES
  baseUrls,            \* the session's base URLs (ids), fixed at construction
  retryPolicy,         \* [maxAttempts, shouldRetryError, shouldRetryResponse]
  dispatcher,          \* the proxy dispatcher, or NoDispatcher
  retryOptions,        \* history: options.retry.maxAttempts and
                       \*   options.maxRetries the constructor was given, in
                       \*   the runs that relate them to the policy
  currentBaseIndex,    \* the mirror cursor
  cookieJar,
  cookiesInitialized,
  pc,                  \* per caller: "idle", "fetch", "delay", "body", "done"
  op,                  \* per caller: the public call in progress
  frame,               \* per caller: locals of performRequest/attemptWithRetries
  inflight,            \* per caller: url and init of the last transport call
  response,            \* per caller: the response performRequest returned
  result,              \* per caller: how the public call settled
  calls,               \* per caller: transport calls issued, per phase
  attemptsMade,        \* per caller: transport calls made to each failed mirror
                       \*   of the current performRequest
  seen,                \* per caller: the kinds of failed attempts of the call
                       \*   in progress (NetworkFailure, StatusFailure)
  geoSeen,             \* per caller: a 451/403 was received during this call
  bodyText,            \* per caller: the body text this call has read
  cursorAtStart,       \* per caller: the mirror cursor when the call started
  primedAtStart        \* per caller: cookiesInitialized when the call started

vars ==
  <<baseUrls, retryPolicy, dispatcher, retryOptions, currentBaseIndex, cookieJar, cookiesInitialized,
    pc, op, frame, inflight, response, result, calls, attemptsMade, seen,
    geoSeen, bodyText, cursorAtStart, primedAtStart>>

config == <<baseUrls, retryPolicy, dispatcher, retryOptions>>

\* ------------------------------------------------- buildRanges (download.ts)
VARIABLES
  rStart,              \* parameter start
  rTotal,              \* parameter total: Some(n) or Undefined
  rChunk,              \* parameter chunkSize
  rOffset,             \* local offset
  rRanges,             \* local ranges
  rpc                  \* "idle", "loop" (at the while test) or "returned"

rangeVars == <<rStart, rTotal, rChunk, rOffset, rRanges, rpc>>

\* buildRanges is not running
RangeIdle ==
  /\ rStart = 0
  /\ rTotal = Undefined
  /\ rChunk = 1
  /\ rOffset = 0
  /\ rRanges = <<>>
  /\ rpc = "idle"

\* ------------------------------------------- downloadMediaFile (download.ts)
\* a promise: not settled yet, resolved with a value, rejected with an error
Pending == [state |-> "pending"]
Resolved(v) == [state |-> "resolved", value |-> v]
Rejected(e) == [state |-> "rejected", error |-> e]

VARIABLES
  positionalAppend,    \* platform: a positional write on a handle opened for
                       \*   appending goes to its position (TRUE) or to the end
                       \*   of the file (FALSE, as on Linux)
  fileExists,          \* the destination file exists
  fileCells,           \* its content, one cell per UnitBytes bytes
  fileAtStart,         \* its content when downloadMediaFile was called
  dlOpts,              \* arguments: option.sizeBytes and options
  dlpc,                \* "idle", "priming", "planning", "running", "closing",
                       \*   "settled"
  dlOutcome,           \* how the call settles (kept while the handle closes)
  handle,              \* "none", "open" or "closed", and the flags it was
                       \*   opened with
  closeCount,          \* calls of fileHandle.close()
  plan,                \* const ranges
  queue,               \* const queue
  workers,             \* per worker: pc, range taken, offset, body left to read
  downloadedBytes,
  progress,            \* snapshots passed to onProgress: the last one, and
                       \*   whether one was lower than its predecessor
  requests,            \* range requests issued, in order: Range and Referer
  primingCalls,        \* transport calls of ensureSessionCookies in this call
  requestsAfterSettle, \* range requests issued after the call settled
  writesAfterClose     \* writes issued on the closed handle

dlVars ==
  <<positionalAppend, fileExists, fileCells, fileAtStart, dlOpts, dlpc,
    dlOutcome, handle, closeCount, plan, queue, workers, downloadedBytes,
    progress, requests, primingCalls, requestsAfterSettle, writesAfterClose>>

NoOptions ==
  [mode |-> "auto", parallel |-> Undefined, chunkSize |-> Undefined,
   headers |-> <<>>, sizeBytes |-> Undefined]

NoHandle == [state |-> "none", flags |-> ""]
NoProgress == [reported |-> FALSE, downloadedBytes |-> 0, totalBytes |-> Undefined,
               percentage |-> Undefined, decreased |-> FALSE]
NoWorkers == <<>>

\* downloadMediaFile is not running; the file is absent
DlIdle ==
  /\ positionalAppend = FALSE
  /\ fileExists = FALSE
  /\ fileCells = <<>>
  /\ fileAtStart = [exists |-> FALSE, cells |-> <<>>]
  /\ dlOpts = NoOptions
  /\ dlpc = "idle"
  /\ dlOutcome = Pending
  /\ handle = NoHandle
  /\ closeCount = 0
  /\ plan = <<>>
  /\ queue = <<>>
  /\ workers = NoWorkers
  /\ downloadedBytes = 0
  /\ progress = NoProgress
  /\ requests = <<>>
  /\ primingCalls = 0
  /\ requestsAfterSettle = 0
  /\ writesAfterClose = 0

\* resolveNuxtPayload (details.ts): its argument and how the call ended
VARIABLES
  nuxtPayload,         \* the parsed payload array handed to resolveNuxtPayload
  nuxtOutcome          \* "idle", or the call has returned or thrown

nuxtVars == <<nuxtPayload, nuxtOutcome>>

\* resolveNuxtPayload has not been called
NuxtIdle ==
  /\ nuxtPayload = <<>>
  /\ nuxtOutcome = [state |-> "idle"]

nonSessionVars == <<rangeVars, dlVars, nuxtVars>>

NoError == [name |-> "none"]
NoBody == [text |-> "none"]
NetworkFailure == "network"
StatusFailure == "status"

IdleFrame ==
  [phase |-> "none", path |-> "", headers |-> [Cookie |-> Absent],
   skipMirrorAdvance |-> FALSE, skipRetryLoop |-> FALSE,
   mirrorOffset |-> 0, baseIndex |-> 0, maxAttempts |-> 0, attempt |-> 0,
   lastError |-> NoError, failures |-> <<>>]

\* ----------------------------------------------------------- proxy routing
\* an optional string or object of the constructor options
NoValue == [defined |-> FALSE, value |-> ""]

NoDispatcher == NoValue
CUSTOM_DISPATCHER == "options.dispatcher"
PROXY_URL == "http://proxy.local:8080"
ENV_PROXY_URL == "http://127.0.0.1:8080"
INVALID_PROXY_URL == "not a proxy url"

\* createProxyAgent(proxyUrl): undefined when new ProxyAgent throws
createProxyAgent(proxyUrl) ==
  IF proxyUrl = INVALID_PROXY_URL THEN NoDispatcher
  ELSE Some("ProxyAgent of " \o proxyUrl)

\* constructor: const proxyUrl; this.dispatcher
constructDispatcher(optDispatcher, optProxyUrl, envProxy) ==
  LET proxyUrl == IF optProxyUrl.defined THEN optProxyUrl ELSE envProxy
  IN IF optDispatcher.defined THEN optDispatcher
     ELSE IF proxyUrl.defined /\ proxyUrl.value # ""
     THEN createProxyAgent(proxyUrl.value)
     ELSE NoDispatcher

DispatcherOptions == {NoValue, Some(CUSTOM_DISPATCHER)}
ProxyUrlOptions == {NoValue, Some(""), Some(PROXY_URL), Some(INVALID_PROXY_URL)}
EnvProxyValues == {NoValue, Some(ENV_PROXY_URL)}

\* the dispatchers a session can be constructed with
Dispatchers ==
  { constructDispatcher(d, u, e) :
      d \in DispatcherOptions, u \in ProxyUrlOptions, e \in EnvProxyValues }

NoRequest ==
  [url |-> [base |-> 0, path |-> ""], Cookie |-> Absent,
   dispatcher |-> NoDispatcher]
NoResponse ==
  [status |-> 0, url |-> [base |-> 0, path |-> ""], headers |-> NoSetCookie]

\* buildUrl(path, searchParams, baseUrl) for the base URL at baseIndex
buildUrl(path, baseIndex) == [base |-> baseUrls[baseIndex + 1], path |-> path]

\* field initialisers of MovieboxSession besides cookiesInitialized; no call
\* is in progress
CallerFields ==
  /\ currentBaseIndex = 0
  /\ cookieJar = <<>>
  /\ pc = [p \in Callers |-> "idle"]
  /\ op = [p \in Callers |-> [kind |-> "none"]]
  /\ frame = [p \in Callers |-> IdleFrame]
  /\ inflight = [p \in Callers |-> NoRequest]
  /\ response = [p \in Callers |-> NoResponse]
  /\ result = [p \in Callers |-> Pending]
  /\ calls = [p \in Callers |-> [prime |-> 0, main |-> 0]]
  /\ attemptsMade = [p \in Callers |-> <<>>]
  /\ seen = [p \in Callers |-> {}]
  /\ geoSeen = [p \in Callers |-> FALSE]
  /\ bodyText = [p \in Callers |-> NoBody]
  /\ cursorAtStart = [p \in Callers |-> 0]
  /\ primedAtStart = [p \in Callers |-> FALSE]

\* field initialisers of MovieboxSession; no call has been made
SessionFields ==
  /\ cookiesInitialized = FALSE
  /\ CallerFields

\* constructor
Init ==
  /\ baseUrls \in { [i \in 1..n |-> i - 1] : n \in 1..MaxBaseUrls }
  /\ retryPolicy \in
       { [maxAttempts |-> PolicyMaxAttempts(a, r),
          shouldRetryError |-> e, shouldRetryResponse |-> s] :
           a \in {Undefined} \cup { Some(v) : v \in 0..MaxConfiguredAttempts },
           r \in {Undefined} \cup { Some(v) : v \in -1..(MaxConfiguredAttempts - 1) },
           e \in ErrorPredicateKinds, s \in ResponsePredicateKinds }
  /\ dispatcher = NoDispatcher
  /\ retryOptions = OptionsNotRecorded
  /\ SessionFields
  /\ RangeIdle
  /\ DlIdle
  /\ NuxtIdle

\* ---------------------------------------------------------------- helpers
\* executeSingleRequest: the url and init handed to fetchImpl.  The caller's
\* headers are merged first; the jar's Cookie header overwrites theirs when
\* the jar is not empty (sendCookies is never false).
executeSingleRequest(fr, jar) ==
  [url |-> buildUrl(fr.path, fr.baseIndex),
   Cookie |-> IF Len(jar) > 0 THEN Present(serializeCookies(jar))
              ELSE fr.headers.Cookie,
   dispatcher |-> IF dispatcher.defined THEN dispatcher ELSE NoDispatcher]

\* performRequest entry: locals before the first loop iteration
NewFrame(phase, path, headers, skipMirrorAdvance, skipRetryLoop) ==
  [phase |-> phase, path |-> path, headers |-> headers,
   skipMirrorAdvance |-> skipMirrorAdvance, skipRetryLoop |-> skipRetryLoop,
   mirrorOffset |-> 0, baseIndex |-> 0, maxAttempts |-> 0, attempt |-> 0,
   lastError |-> NoError, failures |-> <<>>]

\* (variant: the scan starts at the first base URL, not at the cursor)
EnterMirror_IgnoreCursor(fr) ==
  [fr EXCEPT !.baseIndex = fr.mirrorOffset % Len(baseUrls),
             !.maxAttempts = IF fr.skipRetryLoop THEN 1 ELSE retryPolicy.maxAttempts,
             !.attempt = 1,
             !.lastError = NoError]

\* performRequest has returned the response to its caller: its locals and
\* those of attemptWithRetries are gone
ReturnedFrame(phase) == [IdleFrame EXCEPT !.phase = phase]

\* top of the mirror loop of performRequest, entry of attemptWithRetries and
\* the first "attempt += 1" of its loop
EnterMirror(fr) ==
  [fr EXCEPT !.baseIndex = (currentBaseIndex + fr.mirrorOffset) % Len(baseUrls),
             !.maxAttempts = IF fr.skipRetryLoop THEN 1 ELSE retryPolicy.maxAttempts,
             !.attempt = 1,
             !.lastError = NoError]

\* (variant: one attempt more than the policy allows)
AttemptsRemain_OneMore(fr) == fr.attempt < fr.maxAttempts + 1

\* "attempt < maxAttempts" of the two retry decisions
AttemptsRemain(fr) == fr.attempt < fr.maxAttempts

\* (variant: the cursor is never moved)
AdvanceCursor_Never(fr) == currentBaseIndex

\* performRequest on success: the cursor moves unless mirror advance is skipped
AdvanceCursor(fr) ==
  IF ~fr.skipMirrorAdvance THEN fr.baseIndex ELSE currentBaseIndex

\* (variant: priming counts as done from the start)
PrimingCached_Always == TRUE

\* (variant: the flag is not consulted)
PrimingCached_Never == FALSE

\* ensureSessionCookies: the early return on the cookiesInitialized flag
PrimingCached == cookiesInitialized

\* (variant: the wrapper counts every permitted attempt)
TerminalError_AllAttempts(fr) ==
  IF fr.lastError # NoError
  THEN IF ~fr.skipRetryLoop /\ fr.maxAttempts > 1
       THEN RetryLimitExceededError(fr.lastError.message, fr.maxAttempts)
       ELSE fr.lastError
  ELSE MovieboxApiError(<<"Unknown error while contacting Moviebox API">>)

\* the error attemptWithRetries throws once its loop has ended
TerminalError(fr) ==
  IF fr.lastError # NoError
  THEN IF ~fr.skipRetryLoop /\ fr.maxAttempts > 1
       THEN RetryLimitExceededError(fr.lastError.message, fr.maxAttempts - 1)
       ELSE fr.lastError
  ELSE MovieboxApiError(<<"Unknown error while contacting Moviebox API">>)

\* fetchImpl is called with the request built from the frame
IssueCall(p, fr, counted) ==
  /\ frame' = [frame EXCEPT ![p] = fr]
  /\ inflight' = [inflight EXCEPT ![p] = executeSingleRequest(fr, cookieJar)]
  /\ calls' = [calls EXCEPT ![p] = [counted EXCEPT ![fr.phase] = @ + 1]]
  /\ pc' = [pc EXCEPT ![p] = "fetch"]

\* the public call settles; its locals are gone
Settle(p, r) ==
  /\ result' = [result EXCEPT ![p] = r]
  /\ pc' = [pc EXCEPT ![p] = "done"]
  /\ frame' = [frame EXCEPT ![p] = IdleFrame]
  /\ inflight' = [inflight EXCEPT ![p] = NoRequest]
  /\ response' = [response EXCEPT ![p] = NoResponse]

\* attemptWithRetries threw a non-geo error: the catch handler of
\* performRequest records it, and the loop goes to the next mirror or ends
MirrorFailed(p, fr) ==
  LET recorded == [fr EXCEPT
                     !.failures = Append(@, [url |-> buildUrl(fr.path, fr.baseIndex),
                                             error |-> TerminalError(fr)]),
                     !.mirrorOffset = @ + 1]
  IN /\ attemptsMade' = [attemptsMade EXCEPT ![p] = Append(@, fr.attempt)]
     /\ IF recorded.mirrorOffset < Len(baseUrls)
        THEN /\ IssueCall(p, EnterMirror(recorded), calls[p])
             /\ UNCHANGED <<result, response>>
        ELSE /\ Settle(p, Rejected(MirrorExhaustedError(recorded.failures)))
             /\ UNCHANGED calls

\* catch block of attemptWithRetries for a non-geo error
CatchBranch(p, error) ==
  LET fr == [frame[p] EXCEPT !.lastError = error]
  IN IF AttemptsRemain(fr) /\ shouldRetryError(retryPolicy, error)
     THEN /\ frame' = [frame EXCEPT ![p] = fr]
          /\ pc' = [pc EXCEPT ![p] = "delay"]
          /\ UNCHANGED <<inflight, calls, result, response, attemptsMade>>
     ELSE MirrorFailed(p, fr)

\* ---------------------------------------------------------------- actions
\* A caller invokes fetchJson, fetchHtml or ensureSessionCookies; the code
\* runs up to its first suspension point.
Start(p, o) ==
  /\ UNCHANGED nonSessionVars
  /\ pc[p] \in {"idle", "done"}
  /\ op' = [op EXCEPT ![p] = o]
  /\ attemptsMade' = [attemptsMade EXCEPT ![p] = <<>>]
  /\ seen' = [seen EXCEPT ![p] = {}]
  /\ geoSeen' = [geoSeen EXCEPT ![p] = FALSE]
  /\ bodyText' = [bodyText EXCEPT ![p] = NoBody]
  /\ cursorAtStart' = [cursorAtStart EXCEPT ![p] = currentBaseIndex]
  /\ primedAtStart' = [primedAtStart EXCEPT ![p] = cookiesInitialized]
  /\ IF o.kind = "ensureSessionCookies" /\ PrimingCached
     THEN /\ Settle(p, Resolved(Len(cookieJar) > 0))
          /\ calls' = [calls EXCEPT ![p] = [prime |-> 0, main |-> 0]]
     ELSE /\ result' = [result EXCEPT ![p] = Pending]
          /\ response' = [response EXCEPT ![p] = NoResponse]
          /\ IF \/ o.kind = "ensureSessionCookies"
                \/ (o.kind = "fetchJson" /\ o.requireCookies /\ ~PrimingCached)
             THEN IssueCall(p, EnterMirror(NewFrame("prime", APP_INFO_PATH,
                                                    [Cookie |-> Absent], FALSE, FALSE)),
                            [prime |-> 0, main |-> 0])
             ELSE IssueCall(p, EnterMirror(NewFrame("main", RESOURCE_PATH,
                                                    o.headers, FALSE, FALSE)),
                            [prime |-> 0, main |-> 0])
  /\ UNCHANGED <<config, currentBaseIndex, cookieJar, cookiesInitialized>>

\* fetchImpl rejects (network error)
TransportThrows(p) ==
  /\ UNCHANGED nonSessionVars
  /\ pc[p] = "fetch"
  /\ CatchBranch(p, TransportError)
  /\ seen' = [seen EXCEPT ![p] = IF pc'[p] = "done" THEN {} ELSE @ \cup {NetworkFailure}]
  /\ UNCHANGED <<config, currentBaseIndex, cookieJar, cookiesInitialized,
                 op, geoSeen, bodyText, cursorAtStart, primedAtStart>>

\* fetchImpl answers with a response: the rest of the try block of
\* attemptWithRetries and, when it returns or throws, what performRequest
\* does with the outcome.  On 2xx performRequest moves the cursor, captures
\* the cookies and returns; the caller starts reading the body.
ResponseReceived(p, status, headers) ==
  /\ UNCHANGED nonSessionVars
  /\ pc[p] = "fetch"
  /\ IF IsGeoStatus(status)
     THEN /\ Settle(p, Rejected(GeoBlockedError(inflight[p].url, status)))
          /\ UNCHANGED <<calls, attemptsMade, currentBaseIndex, cookieJar>>
     ELSE IF ~ResponseOk(status)
     THEN /\ IF AttemptsRemain(frame[p]) /\ shouldRetryResponse(retryPolicy, status)
             THEN /\ pc' = [pc EXCEPT ![p] = "delay"]
                  /\ UNCHANGED <<frame, inflight, calls, result, response,
                                 attemptsMade>>
             ELSE CatchBranch(p, MovieboxHttpError(
                    <<"Moviebox API request failed with status", status>>,
                    status, inflight[p].url))
          /\ UNCHANGED <<currentBaseIndex, cookieJar>>
     ELSE /\ currentBaseIndex' = AdvanceCursor(frame[p])
          /\ cookieJar' = storeResponseCookies(cookieJar, headers)
          /\ response' = [response EXCEPT
                            ![p] = [status |-> status, url |-> inflight[p].url,
                                    headers |-> headers]]
          /\ inflight' = [inflight EXCEPT ![p] = NoRequest]
          /\ frame' = [frame EXCEPT ![p] = ReturnedFrame(frame[p].phase)]
          /\ pc' = [pc EXCEPT ![p] = "body"]
          /\ UNCHANGED <<result, calls, attemptsMade>>
  /\ seen' = [seen EXCEPT ![p] = IF pc'[p] = "done" THEN {}
                                  ELSE IF status \in OkStatuses THEN @
                                  ELSE @ \cup {StatusFailure}]
  /\ geoSeen' = [geoSeen EXCEPT ![p] = @ \/ status \in GeoStatuses]
  /\ UNCHANGED <<config, cookiesInitialized, op, bodyText, cursorAtStart,
                 primedAtStart>>

\* the retry delay has elapsed: next iteration of the retry loop
DelayElapsed(p) ==
  /\ UNCHANGED nonSessionVars
  /\ pc[p] = "delay"
  /\ IssueCall(p, [frame[p] EXCEPT !.attempt = @ + 1], calls[p])
  /\ UNCHANGED <<config, currentBaseIndex, cookieJar, cookiesInitialized,
                 op, response, result, attemptsMade, seen, geoSeen, bodyText,
                 cursorAtStart, primedAtStart>>

\* ensureSessionCookies: the priming response is drained (errors ignored) and
\* the flag is set; a fetchJson that awaited it goes on with its own request
PrimingDrained(p) ==
  /\ UNCHANGED nonSessionVars
  /\ pc[p] = "body"
  /\ frame[p].phase = "prime"
  /\ cookiesInitialized' = TRUE
  /\ IF op[p].kind = "ensureSessionCookies"
     THEN /\ Settle(p, Resolved(Len(cookieJar) > 0))
          /\ UNCHANGED <<calls, attemptsMade>>
     ELSE /\ IssueCall(p, EnterMirror(NewFrame("main", RESOURCE_PATH,
                                               op[p].headers, FALSE, FALSE)),
                       calls[p])
          /\ response' = [response EXCEPT ![p] = NoResponse]
          /\ attemptsMade' = [attemptsMade EXCEPT ![p] = <<>>]
          /\ UNCHANGED result
  /\ seen' = [seen EXCEPT ![p] = IF pc'[p] = "done" THEN {} ELSE @]
  /\ UNCHANGED <<config, currentBaseIndex, cookieJar, op, geoSeen, bodyText,
                 cursorAtStart, primedAtStart>>

\* fetchJson / fetchHtml: response.text() has settled; its rejection is not
\* caught and rejects the call
BodyRead(p, body) ==
  /\ UNCHANGED nonSessionVars
  /\ pc[p] = "body"
  /\ frame[p].phase = "main"
  /\ bodyText' = [bodyText EXCEPT ![p] = body]
  /\ IF body.text = "unreadable"
     THEN Settle(p, Rejected(BodyReadError))
     ELSE IF body.text = "empty"
     THEN Settle(p, Rejected(EmptyResponseError(response[p].url)))
     ELSE IF op[p].kind = "fetchHtml"
     THEN Settle(p, Resolved(body))
     ELSE IF body.text = "notjson"
     THEN Settle(p, Rejected(MovieboxHttpError(<<"Moviebox API returned invalid JSON">>,
                                               response[p].status, response[p].url)))
     ELSE LET unwrapped == unwrapEnvelope(body.parsed, response[p].url)
          IN IF unwrapped.throws
             THEN Settle(p, Rejected(unwrapped.error))
             ELSE Settle(p, Resolved(unwrapped.value))
  /\ UNCHANGED <<config, currentBaseIndex, cookieJar, cookiesInitialized,
                 op, calls, attemptsMade, geoSeen, cursorAtStart, primedAtStart>>
  /\ seen' = [seen EXCEPT ![p] = {}]

Next ==
  \E p \in SequentialCallers :
    \/ \E o \in Operations : Start(p, o)
    \/ TransportThrows(p)
    \/ \E status \in Statuses :
         \E headers \in HeaderChoices(status) : ResponseReceived(p, status, headers)
    \/ DelayElapsed(p)
    \/ PrimingDrained(p)
    \/ \E body \in Bodies : BodyRead(p, body)

allVars == <<vars, nonSessionVars>>

Spec == Init /\ [][Next]_allVars

\* a session constructed with the default retry policy and any of the proxy
\* settings
ProxyInit ==
  /\ baseUrls \in { [i \in 1..n |-> i - 1] : n \in 1..MaxBaseUrls }
  /\ retryPolicy = [maxAttempts |-> PolicyMaxAttempts(Undefined, Undefined),
                    shouldRetryError |-> "default", shouldRetryResponse |-> "default"]
  /\ dispatcher \in Dispatchers
  /\ retryOptions = OptionsNotRecorded
  /\ SessionFields
  /\ RangeIdle
  /\ DlIdle
  /\ NuxtIdle

ProxySpec == ProxyInit /\ [][Next]_allVars

\* two callers use one session at the same time: the handlers of both
\* interleave at their awaits.  The session has MaxBaseUrls base URLs and
\* permits two attempts per mirror.
ConcurrentInit ==
  /\ baseUrls = [i \in 1..MaxBaseUrls |-> i - 1]
  /\ retryPolicy = [maxAttempts |-> PolicyMaxAttempts(Undefined, Some(1)),
                    shouldRetryError |-> "default", shouldRetryResponse |-> "default"]
  /\ dispatcher = NoDispatcher
  /\ retryOptions = OptionsNotRecorded
  /\ SessionFields
  /\ RangeIdle
  /\ DlIdle
  /\ NuxtIdle

\* the calls and answers of the concurrent runs: pages and priming, answers
\* without cookies
ConcurrentOperations == { o \in Operations : o.kind # "fetchJson" }
ConcurrentBodies == { b \in Bodies : b.text \in {"empty", "notjson"} }
ConcurrentStatuses == {200, 403, 500}

ConcurrentNext ==
  \E p \in Callers :
    \/ \E o \in ConcurrentOperations : Start(p, o)
    \/ TransportThrows(p)
    \/ \E status \in ConcurrentStatuses : ResponseReceived(p, status, NoSetCookie)
    \/ DelayElapsed(p)
    \/ PrimingDrained(p)
    \/ \E body \in ConcurrentBodies : BodyRead(p, body)

ConcurrentSpec == ConcurrentInit /\ [][ConcurrentNext]_allVars

\* every pending promise of a call in flight settles: the transport answers
\* or throws, the retry timer fires, the body read completes
Progress(p) ==
  \/ TransportThrows(p)
  \/ \E status \in Statuses :
       \E headers \in HeaderChoices(status) : ResponseReceived(p, status, headers)
  \/ DelayElapsed(p)
  \/ PrimingDrained(p)
  \/ \E body \in Bodies : BodyRead(p, body)

FairSpec == Spec /\ \A p \in SequentialCallers : WF_vars(Progress(p))

\* ================================================================== claims
Settled(p) == pc[p] = "done"

RECURSIVE SumSeq(_)
SumSeq(q) == IF q = <<>> THEN 0 ELSE Head(q) + SumSeq(Tail(q))

RejectedWith(p, name) ==
  Settled(p) /\ result[p].state = "rejected" /\ result[p].error.name = name

\* ------------------------------------------------------------------- C1
\* The scenario of the claim: a fetchJson that started with the cursor at 0,
\* saw nothing but network errors on the mirrors it has given up, and got a
\* 2xx answer to its first call to the next mirror (attemptsMade holds the
\* number of calls to each mirror given up).
C1_Scenario(p) ==
  /\ pc[p] = "body"
  /\ op[p].kind = "fetchJson"
  /\ frame[p].phase = "main"
  /\ calls[p].prime = 0
  /\ cursorAtStart[p] = 0
  /\ seen[p] \subseteq {NetworkFailure}
  /\ calls[p].main = SumSeq(attemptsMade[p]) + 1

\* M + 1 transport calls, the cursor at M, the response in hand from mirror M
C1_Outcome(p) ==
  LET M == Len(attemptsMade[p])
  IN /\ calls[p].main = M + 1
     /\ currentBaseIndex = M
     /\ response[p].url = buildUrl(RESOURCE_PATH, M)

\* C1 as stated: after network errors on the first M base URLs and success on
\* the next, fetchJson has made exactly M + 1 transport calls and the cursor
\* is at M - for every retry policy.
C1_Original == \A p \in Callers : C1_Scenario(p) => C1_Outcome(p)

NoRetryOfNetworkErrors ==
  retryPolicy.maxAttempts = 1 \/ retryPolicy.shouldRetryError = "never"

\* C1 (amended): mirror fallback.  When the retry policy does not retry a
\* network error (one attempt per mirror, or an error predicate that
\* declines), network errors on the first M base URLs followed by success on
\* the next make exactly M + 1 transport calls and leave the cursor at M,
\* the response being the one of mirror M; with one attempt per mirror the
\* call, once settled on an "ok" envelope, has resolved with the parsed data
\* after one call per failed mirror plus one.
C1_MirrorFallback ==
  \A p \in Callers :
    /\ (C1_Scenario(p) /\ NoRetryOfNetworkErrors) => C1_Outcome(p)
    /\ ( /\ Settled(p)
         /\ op[p].kind = "fetchJson"
         /\ calls[p].prime = 0
         /\ cursorAtStart[p] = 0
         /\ retryPolicy.maxAttempts = 1
         /\ bodyText[p] = [text |-> "json",
                           parsed |-> JObj([code |-> JNum(0), message |-> JStr("ok"),
                                            data |-> Data])] )
       => /\ result[p] = Resolved(Data)
          /\ calls[p].main = Len(attemptsMade[p]) + 1
          /\ currentBaseIndex = Len(attemptsMade[p])

C1_Witness ==
  \E p \in Callers :
    /\ C1_Scenario(p)
    /\ NoRetryOfNetworkErrors
    /\ Len(attemptsMade[p]) >= 1
    /\ currentBaseIndex = Len(attemptsMade[p])

\* ------------------------------------------------------------------- C2
\* C2: mirror exhaustion.  A request is rejected with MirrorExhaustedError
\* exactly when the retry sub-loop has failed on every base URL, and the
\* failures list then has one entry per base URL, in the order attempted:
\* from the mirror cursor on, wrapping around.
C2_MirrorExhaustion ==
  \A p \in Callers :
    /\ (Settled(p) /\ Len(attemptsMade[p]) = Len(baseUrls))
         <=> RejectedWith(p, "MirrorExhaustedError")
    /\ RejectedWith(p, "MirrorExhaustedError") =>
         LET failures == result[p].error.failures
             N == Len(baseUrls)
         IN /\ Len(failures) = N
            /\ \A i \in 1..Len(failures) :
                 /\ failures[i].url.base = baseUrls[((currentBaseIndex + i - 1) % N) + 1]
                 /\ failures[i].url.path = failures[1].url.path
                 /\ failures[i].error.name # "GeoBlockedError"

C2_Witness ==
  \E p \in Callers :
    /\ RejectedWith(p, "MirrorExhaustedError")
    /\ Len(result[p].error.failures) >= 2
    /\ currentBaseIndex >= 1

\* ------------------------------------------------------------------- C3
\* C3: geo-block short-circuit.  Once a transport call of a request has
\* answered 451 or 403 the request is settled, rejected with GeoBlockedError
\* carrying that status: no retry, no other mirror, for every retry policy.
C3_GeoBlockShortCircuit ==
  \A p \in Callers :
    geoSeen[p] =>
      /\ RejectedWith(p, "GeoBlockedError")
      /\ result[p].error.status \in GeoStatuses

\* a 403 on the first call, with retries and other mirrors left unused
C3_Witness ==
  \E p \in Callers :
    /\ geoSeen[p]
    /\ RejectedWith(p, "GeoBlockedError")
    /\ result[p].error.status = 403
    /\ calls[p].main = 1
    /\ retryPolicy.maxAttempts >= 2
    /\ retryPolicy.shouldRetryResponse = "always"
    /\ Len(baseUrls) >= 2

\* ------------------------------------------------------------------- C4
\* the Cookie header that replays the jar, written out for the jars the
\* sampled Set-Cookie values can produce
CookieA1 == <<"a", "=", "1">>
CookieA1B2 == <<"a", "=", "1", ";", " ", "b", "=", "2">>
JarA1 == << <<(<<"a">>), (<<"1">>)>> >>
JarA1B2 == << <<(<<"a">>), (<<"1">>)>>, <<(<<"b">>), (<<"2">>)>> >>

ReplayedCookie ==
  CASE cookieJar = JarA1 -> Present(CookieA1)
    [] cookieJar = JarA1B2 -> Present(CookieA1B2)
    [] OTHER -> Absent

\* a 2xx response carrying Set-Cookie "a=1; Path=/" has just been captured
CapturedA1(p) ==
  /\ pc[p] = "body"
  /\ response[p].headers = [setCookie |-> <<SC_a1>>, raw |-> FALSE]

C4_Capture ==
  /\ cookieJar \in {<<>>, JarA1, JarA1B2}
  /\ \A p \in Callers : CapturedA1(p) => cookieJar \in {JarA1, JarA1B2}

C5_IdempotentPriming ==
  \A p \in Callers :
    /\ (primedAtStart[p] /\ pc[p] # "idle") =>
         (calls[p].prime = 0 /\ cookiesInitialized)
    /\ (Settled(p) /\ op[p].kind = "ensureSessionCookies" /\ primedAtStart[p]) =>
         (calls[p].main = 0 /\ result[p] = Resolved(Len(cookieJar) > 0))
    /\ (Settled(p) /\ op[p].kind = "ensureSessionCookies"
          /\ result[p].state = "resolved") =>
         (cookiesInitialized /\ result[p].value = (Len(cookieJar) > 0))
    /\ (pc[p] = "body" /\ frame[p].phase = "prime" /\ seen[p] = {}) =>
         calls[p].prime = 1
    /\ (pc[p] # "idle" /\ op[p].kind = "ensureSessionCookies") => calls[p].main = 0

\* a second ensureSessionCookies has returned true without any transport call
C5_Witness ==
  \E p \in Callers :
    /\ Settled(p)
    /\ op[p].kind = "ensureSessionCookies"
    /\ primedAtStart[p]
    /\ calls[p] = [prime |-> 0, main |-> 0]
    /\ result[p] = Resolved(TRUE)

\* ------------------------------------------------------------------- C6
HasNumericCode(v) ==
  v.t = "object" /\ "code" \in DOMAIN v.f /\ v.f.code.t = "number"

IsOkEnvelope(v) ==
  /\ HasNumericCode(v)
  /\ v.f.code.n = 0
  /\ "message" \in DOMAIN v.f
  /\ v.f.message.t = "string"
  /\ v.f.message.s = "ok"

JsonSettled(p) ==
  Settled(p) /\ op[p].kind = "fetchJson" /\ bodyText[p].text = "json"

\* C6 as stated: code 0 with message "ok" returns data; any other code fails
\* with UnsuccessfulResponseError carrying the payload; no numeric code: the
\* body is returned unmodified.
C6_Original ==
  \A p \in Callers :
    JsonSettled(p) =>
      LET v == bodyText[p].parsed
      IN IF ~HasNumericCode(v) THEN result[p] = Resolved(v)
         ELSE IF IsOkEnvelope(v)
              THEN /\ result[p].state = "resolved"
                   /\ "data" \in DOMAIN v.f => result[p].value = v.f.data
         ELSE IF v.f.code.n # 0
              THEN /\ RejectedWith(p, "UnsuccessfulResponseError")
                   /\ result[p].error.response = v
         ELSE TRUE

\* C6 (amended): envelope unwrapping.  A parsed body that is an object with a
\* numeric code is unwrapped to its data when code is 0, message is "ok" and
\* a data field is present, and rejected with UnsuccessfulResponseError
\* carrying the full payload in every other case; a body without a numeric
\* code is returned unmodified.
C6_EnvelopeUnwrapping ==
  \A p \in Callers :
    JsonSettled(p) =>
      LET v == bodyText[p].parsed
      IN IF ~HasNumericCode(v) THEN result[p] = Resolved(v)
         ELSE IF IsOkEnvelope(v) /\ "data" \in DOMAIN v.f
              THEN result[p] = Resolved(v.f.data)
         ELSE /\ RejectedWith(p, "UnsuccessfulResponseError")
              /\ result[p].error.response = v

C6_Witness ==
  \E p \in Callers :
    /\ JsonSettled(p)
    /\ IsOkEnvelope(bodyText[p].parsed)
    /\ result[p] = Resolved(Data)

\* ------------------------------------------------------------------- C7
InPerformRequest(p) == pc[p] \in {"fetch", "delay"}

PerformRequestEnded(p) ==
  \/ pc[p] = "body"
  \/ RejectedWith(p, "GeoBlockedError")
  \/ RejectedWith(p, "MirrorExhaustedError")

C7_Bounds ==
  \A p \in Callers :
    /\ PolicyMaxAttempts(Undefined, Undefined) = 3
    /\ retryPolicy.maxAttempts >= 1
    /\ frame[p].attempt <= frame[p].maxAttempts
    /\ frame[p].maxAttempts <= retryPolicy.maxAttempts
    /\ Len(attemptsMade[p]) <= Len(baseUrls)
    /\ \A i \in 1..Len(attemptsMade[p]) :
         attemptsMade[p][i] \in 1..retryPolicy.maxAttempts
    /\ InPerformRequest(p) =>
         /\ Len(attemptsMade[p]) = frame[p].mirrorOffset
         /\ frame[p].mirrorOffset < Len(baseUrls)
         /\ frame[p].attempt >= 1
         /\ calls[p][frame[p].phase] = SumSeq(attemptsMade[p]) + frame[p].attempt
    /\ calls[p].prime <= Len(baseUrls) * retryPolicy.maxAttempts
    /\ calls[p].main <= Len(baseUrls) * retryPolicy.maxAttempts

\* C7: bounded retries and termination.  Each mirror gets at most
\* retryPolicy.maxAttempts transport calls, so a performRequest makes at most
\* baseUrls.length * maxAttempts of them; and when every transport call
\* returns or throws, a performRequest in flight ends with a response, a
\* GeoBlockedError or a MirrorExhaustedError.
C7_BoundedRetries ==
  /\ []C7_Bounds
  /\ \A p \in SequentialCallers : InPerformRequest(p) ~> PerformRequestEnded(p)

\* every mirror has used all its attempts and the call has ended
C7_Witness ==
  \E p \in Callers :
    /\ RejectedWith(p, "MirrorExhaustedError")
    /\ Len(baseUrls) = MaxBaseUrls
    /\ retryPolicy.maxAttempts > 1
    /\ calls[p].main = Len(baseUrls) * retryPolicy.maxAttempts

\* ------------------------------------------------------------------- C8
StatusOfFailure(error) ==
  IF Len(error.message) = 2 THEN Some(error.message[2]) ELSE Undefined

\* the sub-loop of a mirror ended on a status the response predicate declines
EndedOnDeclinedStatus(error) ==
  /\ StatusOfFailure(error) # Undefined
  /\ ~shouldRetryResponse(retryPolicy, StatusOfFailure(error).value)

FailuresOf(p) ==
  IF RejectedWith(p, "MirrorExhaustedError") THEN result[p].error.failures
  ELSE frame[p].failures

\* C8: a non-2xx, non-geo status that the response predicate declines is not
\* retried on that mirror (no further attempt follows it), and the failure
\* recorded for the mirror is a MovieboxHttpError with that status and URL.
C8_NonRetryableStatus ==
  \A p \in Callers :
    /\ ~(/\ pc[p] = "delay"
         /\ frame[p].lastError.name = "MovieboxHttpError"
         /\ ~shouldRetryResponse(retryPolicy, frame[p].lastError.status))
    /\ \A i \in 1..Len(FailuresOf(p)) :
         LET f == FailuresOf(p)[i]
         IN EndedOnDeclinedStatus(f.error) =>
              /\ f.error.name = "MovieboxHttpError"
              /\ f.error.status = StatusOfFailure(f.error).value
              /\ f.error.url = f.url
              /\ attemptsMade[p][i] = 1

\* ------------------------------------------------------------------- C9
\* C9: a RetryLimitExceededError recorded for a mirror means that
\* retryPolicy.maxAttempts attempts against that mirror all failed.
C9_RetryLimitMeaning ==
  \A p \in Callers :
    \A i \in 1..Len(FailuresOf(p)) :
      FailuresOf(p)[i].error.name = "RetryLimitExceededError" =>
        attemptsMade[p][i] = retryPolicy.maxAttempts

\* ------------------------------------------------------------------ C10
InvalidJson == <<"Moviebox API returned invalid JSON">>

MirrorFailureNames == {"RetryLimitExceededError", "MovieboxHttpError", "TypeError"}

RejectedCall(p) ==
  /\ Settled(p)
  /\ result[p].state = "rejected"
  /\ op[p].kind \in {"fetchJson", "fetchHtml"}

\* what is claimed of the error e of a rejected call
VisibleFailure(p, e) ==
  /\ e.name \in {"GeoBlockedError", "MirrorExhaustedError", "EmptyResponseError",
                 "MovieboxHttpError", "UnsuccessfulResponseError"}
  /\ e.name = "MovieboxHttpError" => e.message = InvalidJson
  /\ e.name = "UnsuccessfulResponseError" => op[p].kind = "fetchJson"
  /\ e.name = "MirrorExhaustedError" =>
       /\ Len(e.failures) = Len(baseUrls)
       /\ \A i \in 1..Len(e.failures) :
            /\ e.failures[i].error.name \in MirrorFailureNames
            /\ e.failures[i].url.path =
                 IF calls[p].main = 0 THEN APP_INFO_PATH ELSE RESOURCE_PATH

\* C10: a rejected fetchJson or fetchHtml surfaces only a GeoBlockedError, a
\* MirrorExhaustedError (also with a single base URL; its failures list has
\* one entry per base URL, each a retry-limit, HTTP-status or transport
\* error), an EmptyResponseError, the invalid-JSON MovieboxHttpError or an
\* UnsuccessfulResponseError.
C10_VisibleFailures ==
  \A p \in Callers : RejectedCall(p) => VisibleFailure(p, result[p].error)

\* the part of C10 about mirrors: but for a failed read of the response body,
\* the errors surfaced are the claimed ones, and a mirror's failure is
\* surfaced only inside MirrorExhaustedError.failures
MirrorFailuresStayWrapped ==
  \A p \in Callers :
    (RejectedCall(p) /\ bodyText[p].text # "unreadable") =>
      VisibleFailure(p, result[p].error)

\* ================================================= buildRanges (download.ts)
\* "total ? ... : ..." and "total && ...": undefined and 0 are falsy
Truthy(total) == total.defined /\ total.value # 0

Min(a, b) == IF a < b THEN a ELSE b

\* "offset < effectiveTotal", effectiveTotal = total ?? Number.POSITIVE_INFINITY
BelowEffectiveTotal(offset, total) ==
  IF total.defined THEN offset < total.value ELSE TRUE

\* (variant: the end of a range is not clamped to the last byte)
RangeEnd_NoClamp(offset, total, chunkSize) == offset + chunkSize - 1

\* the end of the range that starts at offset
RangeEnd(offset, total, chunkSize) ==
  IF Truthy(total) THEN Min(offset + chunkSize - 1, total.value - 1)
  ELSE offset + chunkSize - 1

\* "if (total && end >= total - 1) break"
LastRange(end, total) == Truthy(total) /\ end >= total.value - 1

\* the model follows the loop for at most this many ranges
MaxPlannedRanges == MaxTotal + 2

StartOffsets == 0..MaxTotal
Totals == {Undefined} \cup { Some(n) : n \in 0..MaxTotal }
ChunkSizes == 1..MaxChunk

\* a call buildRanges(start, total, chunkSize): up to the first loop test
RangeInit ==
  /\ rStart \in StartOffsets
  /\ rTotal \in Totals
  /\ rChunk \in ChunkSizes
  /\ rOffset = rStart
  /\ rRanges = <<>>
  /\ rpc = "loop"
  /\ baseUrls = <<0>>
  /\ retryPolicy = [maxAttempts |-> PolicyMaxAttempts(Undefined, Undefined),
                    shouldRetryError |-> "default", shouldRetryResponse |-> "default"]
  /\ dispatcher = NoDispatcher
  /\ retryOptions = OptionsNotRecorded
  /\ SessionFields
  /\ DlIdle
  /\ NuxtIdle

\* the while test fails: return ranges
buildRangesReturn ==
  /\ rpc = "loop"
  /\ ~BelowEffectiveTotal(rOffset, rTotal)
  /\ rpc' = "returned"
  /\ UNCHANGED <<rStart, rTotal, rChunk, rOffset, rRanges, vars, dlVars, nuxtVars>>

\* one iteration of the while loop
buildRangesIterate ==
  /\ rpc = "loop"
  /\ BelowEffectiveTotal(rOffset, rTotal)
  /\ Len(rRanges) < MaxPlannedRanges
  /\ LET end == RangeEnd(rOffset, rTotal, rChunk)
     IN /\ rRanges' = Append(rRanges, [start |-> rOffset, end |-> end])
        /\ IF LastRange(end, rTotal)
           THEN rpc' = "returned" /\ UNCHANGED rOffset
           ELSE rpc' = "loop" /\ rOffset' = rOffset + rChunk
  /\ UNCHANGED <<rStart, rTotal, rChunk, vars, dlVars, nuxtVars>>

RangeNext == buildRangesReturn \/ buildRangesIterate

RangeSpec == RangeInit /\ [][RangeNext]_allVars

\* ------------------------------------------------------------------ C11
Range(a, b) == [start |-> a, end |-> b]

Returned == rpc = "returned"

\* ranges tiles [s, T) in pieces of at most c bytes
Tiles(ranges, s, T, c) ==
  IF s >= T THEN ranges = <<>>
  ELSE /\ Len(ranges) >= 1
       /\ ranges[1].start = s
       /\ ranges[Len(ranges)].end = T - 1
       /\ \A i \in 1..Len(ranges) :
            /\ ranges[i].start <= ranges[i].end
            /\ ranges[i].end - ranges[i].start + 1 <= c
            /\ i < Len(ranges) => ranges[i + 1].start = ranges[i].end + 1

\* C11: range tiling.  For a known total T, a start s >= 0 and a chunk size
\* c >= 1, buildRanges returns, and its ranges are strictly increasing,
\* contiguous, at most c bytes each, from s to T - 1; none when s >= T;
\* (0,10,3) gives [0,2],[3,5],[6,8],[9,9], (4,10,3) gives [4,6],[7,9] and
\* (10,10,3) gives none.
C11_RangeTiling ==
  rTotal.defined =>
    /\ Len(rRanges) < MaxPlannedRanges
    /\ rpc = "loop" => ENABLED RangeNext
    /\ Returned =>
         /\ Tiles(rRanges, rStart, rTotal.value, rChunk)
         /\ (rStart = 0 /\ rTotal.value = 10 /\ rChunk = 3) =>
              rRanges = <<Range(0, 2), Range(3, 5), Range(6, 8), Range(9, 9)>>
         /\ (rStart = 4 /\ rTotal.value = 10 /\ rChunk = 3) =>
              rRanges = <<Range(4, 6), Range(7, 9)>>
         /\ (rStart = 10 /\ rTotal.value = 10 /\ rChunk = 3) => rRanges = <<>>

\* buildRanges(0, 10, 3) has returned its four ranges
C11_Witness ==
  /\ Returned
  /\ rStart = 0 /\ rTotal = Some(10) /\ rChunk = 3
  /\ Len(rRanges) = 4

\* ------------------------------------------------------------------ C12
\* C12: unknown-size plan.  With the total unknown, buildRanges has returned
\* as soon as it has planned a range, and that range is the single range
\* {start: s, end: s + c - 1}.
C12_UnknownSizePlan ==
  (~rTotal.defined /\ Len(rRanges) >= 1) =>
    /\ Returned
    /\ rRanges = <<Range(rStart, rStart + rChunk - 1)>>

\* ===================================================== downloadMediaFile
\* Byte counts of the file model are multiples of UnitBytes: one cell of
\* fileCells stands for UnitBytes bytes, and a response body arrives in
\* buffers of UnitBytes bytes.
UnitBytes == 256 * 1024
MinChunkSize == 256 * 1024
DEFAULT_CHUNK_SIZE == 4 * 1024 * 1024
DEFAULT_PARALLELISM == 4
DEFAULT_REFERER == "https://fmoviesunblocked.net/"
CUSTOM_REFERER == "https://custom-referer.example.com/"

\* a ?? b
OrElse(a, b) == IF a.defined THEN a.value ELSE b

\* what a cell of the file holds: the bytes of one unit of the remote file,
\* bytes that are not the remote file's, or the zeros of a gap
RemoteCell(k) == [src |-> "remote", unit |-> k]
ForeignCell == [src |-> "foreign", unit |-> 0]
HoleCell == [src |-> "hole", unit |-> 0]

\* the first n units of the remote file
RemotePrefix(n) == [i \in 1..n |-> RemoteCell(i - 1)]

ForeignContent(n) == [i \in 1..n |-> ForeignCell]

Modes == {"auto", "resume", "overwrite"}
ParallelOptions == {Undefined, Some(0), Some(2)}
ChunkSizeOptions == {Undefined, Some(3), Some(2 * UnitBytes)}

\* an object of headers is the sequence of its entries, in insertion order
Entry(key, value) == [key |-> key, value |-> value]
DOWNLOAD_HEADERS == <<Entry("Referer", DEFAULT_REFERER)>>

\* options.headers: none, or a referer under either spelling of the name
CallerHeaders ==
  {<<>>, <<Entry("Referer", CUSTOM_REFERER)>>, <<Entry("referer", CUSTOM_REFERER)>>}
SizeOptions == {Undefined} \cup { Some(k * UnitBytes) : k \in 0..MaxUnits }

DownloadOptions ==
  [mode : Modes, parallel : ParallelOptions, chunkSize : ChunkSizeOptions,
   headers : CallerHeaders, sizeBytes : SizeOptions]

\* the destination before the call: absent, a prefix of the remote file
\* (possibly empty, possibly all of it), or a longer file of other bytes
InitialFiles ==
  {[exists |-> FALSE, cells |-> <<>>]}
    \cup { [exists |-> TRUE, cells |-> RemotePrefix(k)] : k \in 0..MaxUnits }
    \cup {[exists |-> TRUE, cells |-> ForeignContent(MaxUnits + 1)]}

\* a session that may have been primed, and a destination
DlInit ==
  /\ baseUrls = <<0>>
  /\ retryPolicy = [maxAttempts |-> PolicyMaxAttempts(Undefined, Undefined),
                    shouldRetryError |-> "default", shouldRetryResponse |-> "default"]
  /\ dispatcher \in { constructDispatcher(d, NoValue, NoValue) : d \in DispatcherOptions }
  /\ retryOptions = OptionsNotRecorded
  /\ cookiesInitialized \in BOOLEAN
  /\ CallerFields
  /\ RangeIdle
  /\ NuxtIdle
  /\ positionalAppend \in BOOLEAN
  /\ fileAtStart \in InitialFiles
  /\ fileExists = fileAtStart.exists
  /\ fileCells = fileAtStart.cells
  /\ dlOpts = NoOptions
  /\ dlpc = "idle"
  /\ dlOutcome = Pending
  /\ handle = NoHandle
  /\ closeCount = 0
  /\ plan = <<>>
  /\ queue = <<>>
  /\ workers = NoWorkers
  /\ downloadedBytes = 0
  /\ progress = NoProgress
  /\ requests = <<>>
  /\ primingCalls = 0
  /\ requestsAfterSettle = 0
  /\ writesAfterClose = 0

sessionOtherVars ==
  <<baseUrls, retryPolicy, dispatcher, retryOptions, currentBaseIndex, cookieJar, pc, op, frame,
    inflight, response, result, calls, attemptsMade, seen, geoSeen, bodyText,
    cursorAtStart, primedAtStart>>

\* const mode, parallelism, chunkSize, downloadHeaders
\* (variant: the number given is used as it is)
Parallelism_NoFloor(opts) == OrElse(opts.parallel, DEFAULT_PARALLELISM)
Parallelism(opts) == Max(1, OrElse(opts.parallel, DEFAULT_PARALLELISM))
ChunkSize(opts) == Max(MinChunkSize, OrElse(opts.chunkSize, DEFAULT_CHUNK_SIZE))

\* obj[e.key] = e.value
SetEntry(obj, e) ==
  IF \E i \in DOMAIN obj : obj[i].key = e.key
  THEN [i \in DOMAIN obj |-> IF obj[i].key = e.key THEN e ELSE obj[i]]
  ELSE Append(obj, e)

\* {...a, ...b}
RECURSIVE Spread(_, _)
Spread(a, b) == IF b = <<>> THEN a ELSE Spread(SetEntry(a, Head(b)), Tail(b))

downloadHeaders(opts) == Spread(DOWNLOAD_HEADERS, opts.headers)

\* the range request for {start, end}: the range asked for, and the headers
\* { Range: `bytes=${start}-${end}`, ...downloadHeaders }
RangeRequest(range, opts) ==
  [Range |-> range,
   headers |-> Spread(<<Entry("Range", range)>>, downloadHeaders(opts)),
   dispatcher |-> NoDispatcher]

\* header names are case-insensitive: the name as the transport compares it
LowerCase(name) ==
  IF name = "Referer" THEN "referer"
  ELSE IF name = "Range" THEN "range"
  ELSE name

\* the values a request carries for a header name, in the order of the
\* entries (a Headers object joins them with ", ")
RECURSIVE HeaderValues(_, _)
HeaderValues(headers, name) ==
  IF headers = <<>> THEN <<>>
  ELSE (IF LowerCase(Head(headers).key) = LowerCase(name)
        THEN <<Head(headers).value>> ELSE <<>>)
         \o HeaderValues(Tail(headers), name)

\* fs.open flags
OpenFlags(mode) == IF mode = "overwrite" THEN "w+" ELSE "a+"

\* the content of the file once fs.open(destination, flags) has returned
OpenedCells_Keep(flags, cells) == cells
OpenedCells(flags, cells) == IF flags = "w+" THEN <<>> ELSE cells

\* mode === 'resume' && existingSize === 0
NothingToResume_Never(mode, existingSize) == FALSE
NothingToResume(mode, existingSize) == mode = "resume" /\ existingSize = 0

\* mode === 'auto' && targetSize !== undefined && existingSize >= targetSize
AlreadyComplete(mode, targetSize, existingSize) ==
  mode = "auto" /\ targetSize.defined /\ existingSize >= targetSize.value

\* (variant: the bytes on disk are never counted)
StartOffset_Zero(mode, existingSize) == 0

\* const startOffset
StartOffset(mode, existingSize) == IF mode = "resume" THEN existingSize ELSE 0

\* buildRanges(start, total, chunkSize) for a total that is known
RECURSIVE buildRanges(_, _, _)
buildRanges(offset, total, chunkSize) ==
  IF ~BelowEffectiveTotal(offset, total) THEN <<>>
  ELSE LET end == RangeEnd(offset, total, chunkSize)
       IN IF LastRange(end, total)
          THEN <<Range(offset, end)>>
          ELSE <<Range(offset, end)>> \o buildRanges(offset + chunkSize, total, chunkSize)

\* Math.round(x * 1000) / 10 for x = downloaded / target, in tenths of a
\* percent; both byte counts are multiples of UnitBytes
Percentage(downloaded, target) ==
  LET d == downloaded \div UnitBytes
      t == target \div UnitBytes
  IN Min(1000, (2000 * d + t) \div (2 * t))

\* (variant: the snapshot reports the bytes still missing)
Notified_Remaining(prev, downloaded, targetSize) ==
  [reported |-> TRUE,
   downloadedBytes |-> targetSize.value - downloaded,
   totalBytes |-> targetSize,
   percentage |-> IF Truthy(targetSize)
                  THEN Some(Percentage(downloaded, targetSize.value))
                  ELSE Undefined,
   decreased |-> prev.decreased
                   \/ (prev.reported
                         /\ targetSize.value - downloaded < prev.downloadedBytes)]

\* notifyProgress(), with options.onProgress recording the snapshot
Notified(prev, downloaded, targetSize) ==
  [reported |-> TRUE,
   downloadedBytes |-> downloaded,
   totalBytes |-> targetSize,
   percentage |-> IF Truthy(targetSize)
                  THEN Some(Percentage(downloaded, targetSize.value))
                  ELSE Undefined,
   decreased |-> prev.decreased
                   \/ (prev.reported /\ downloaded < prev.downloadedBytes)]

\* fileHandle.write(buffer, 0, buffer.length, offset) of one unit
WriteAt(cells, index, cell) ==
  IF index < Len(cells)
  THEN [cells EXCEPT ![index + 1] = cell]
  ELSE cells \o [i \in 1..(index - Len(cells)) |-> HoleCell] \o <<cell>>

FileWrite(cells, flags, positional, offset, cell) ==
  IF flags = "a+" /\ ~positional
  THEN Append(cells, cell)
  ELSE WriteAt(cells, offset \div UnitBytes, cell)

\* a worker that has taken {start, end} off the queue and awaits the response
Fetching(range) ==
  [pc |-> "fetch", range |-> range, offset |-> range.start, left |-> 0]

\* downloadMediaFile(session, option, destination, options) up to
\* await session.ensureSessionCookies()
DlInvoke ==
  /\ UNCHANGED <<vars, rangeVars, nuxtVars>>
  /\ dlpc = "idle"
  /\ \E opts \in DownloadOptions : dlOpts' = opts
  /\ dlpc' = "priming"
  /\ UNCHANGED <<positionalAppend, fileExists, fileCells, fileAtStart,
                 dlOutcome, handle, closeCount, plan, queue, workers,
                 downloadedBytes, progress, requests, primingCalls,
                 requestsAfterSettle, writesAfterClose>>

\* the errors performRequest rejects the priming request with
PrimingErrors ==
  {MirrorExhaustedError(<<>>), GeoBlockedError(buildUrl(APP_INFO_PATH, 0), 403)}

\* ensureSessionCookies rejects: the priming request failed
PrimingFails ==
  /\ UNCHANGED <<vars, rangeVars, nuxtVars>>
  /\ dlpc = "priming"
  /\ ~cookiesInitialized
  /\ primingCalls' = primingCalls + 1
  /\ \E error \in PrimingErrors : dlOutcome' = Rejected(error)
  /\ dlpc' = "settled"
  /\ UNCHANGED <<positionalAppend, fileExists, fileCells, fileAtStart, dlOpts,
                 handle, closeCount, plan, queue, workers, downloadedBytes,
                 progress, requests, requestsAfterSettle, writesAfterClose>>

\* ensureSessionCookies resolves; then fs.open, stat, the mode checks,
\* buildRanges and the start of the workers, each of which runs to its first
\* await session.fetchImpl
PrimedAndOpened ==
  /\ UNCHANGED <<sessionOtherVars, rangeVars, nuxtVars>>
  /\ dlpc = "priming"
  /\ cookiesInitialized' = TRUE
  /\ primingCalls' = IF cookiesInitialized THEN primingCalls ELSE primingCalls + 1
  /\ LET mode == dlOpts.mode
         flags == OpenFlags(mode)
         opened == OpenedCells(flags, fileCells)
         existingSize == Len(opened) * UnitBytes
         targetSize == dlOpts.sizeBytes
         startOffset == StartOffset(mode, existingSize)
         chunkSize == ChunkSize(dlOpts)
     IN /\ fileExists' = TRUE
        /\ fileCells' = opened
        /\ handle' = [state |-> "open", flags |-> flags]
        /\ IF NothingToResume(mode, existingSize)
           THEN /\ dlOutcome' =
                     Rejected(MovieboxApiError(<<"No partial download found to resume.">>))
                /\ dlpc' = "closing"
                /\ UNCHANGED <<plan, queue, workers, downloadedBytes, requests>>
           ELSE IF AlreadyComplete(mode, targetSize, existingSize)
           THEN /\ dlOutcome' = Resolved("void")
                /\ dlpc' = "closing"
                /\ UNCHANGED <<plan, queue, workers, downloadedBytes, requests>>
           ELSE IF ~targetSize.defined
           THEN \* buildRanges does not return
                /\ dlpc' = "planning"
                /\ UNCHANGED <<dlOutcome, plan, queue, workers, downloadedBytes,
                               requests>>
           ELSE LET ranges == buildRanges(startOffset, targetSize, chunkSize)
                    workerCount == Min(Parallelism(dlOpts), Len(ranges))
                IN IF ranges = <<>>
                   THEN /\ dlOutcome' = Resolved("void")
                        /\ dlpc' = "closing"
                        /\ UNCHANGED <<plan, queue, workers, downloadedBytes,
                                       requests>>
                   ELSE /\ plan' = ranges
                        /\ downloadedBytes' = startOffset
                        /\ workers' = [w \in 1..workerCount |-> Fetching(ranges[w])]
                        /\ queue' = SubSeq(ranges, workerCount + 1, Len(ranges))
                        /\ requests' =
                             [w \in 1..workerCount |-> RangeRequest(ranges[w], dlOpts)]
                        /\ dlpc' = "running"
                        /\ UNCHANGED dlOutcome
  /\ UNCHANGED <<positionalAppend, fileAtStart, dlOpts, closeCount, progress,
                 requestsAfterSettle, writesAfterClose>>

WorkerIds == 1..DEFAULT_PARALLELISM

\* what session.fetchImpl answers to a range request: a status, and a body
\* that is there or not; the body of a 206 or 200 is the bytes asked for
RangeStatuses == {200, 206, 403}
OkRangeStatus(status) == status = 206 \/ status = 200

Failed(w) == [w EXCEPT !.pc = "failed", !.left = 0]

\* (variant: the rejection leaves the function without the finally block)
WorkerThrows_NoFinally(w, error) ==
  /\ workers' = [workers EXCEPT ![w] = Failed(@)]
  /\ IF dlpc = "running"
     THEN dlOutcome' = Rejected(error) /\ dlpc' = "settled"
     ELSE UNCHANGED <<dlOutcome, dlpc>>

\* a worker throws: Promise.all(workers) rejects with the first error, and
\* the finally block starts closing the handle
WorkerThrows(w, error) ==
  /\ workers' = [workers EXCEPT ![w] = Failed(@)]
  /\ IF dlpc = "running"
     THEN dlOutcome' = Rejected(error) /\ dlpc' = "closing"
     ELSE UNCHANGED <<dlOutcome, dlpc>>

\* await session.fetchImpl(...) rejects
FetchRejects(w) ==
  /\ UNCHANGED <<vars, rangeVars, nuxtVars>>
  /\ w \in DOMAIN workers
  /\ workers[w].pc = "fetch"
  /\ WorkerThrows(w, TransportError)
  /\ UNCHANGED <<positionalAppend, fileExists, fileCells, fileAtStart, dlOpts,
                 handle, closeCount, plan, queue, downloadedBytes, progress,
                 requests, primingCalls, requestsAfterSettle, writesAfterClose>>

\* await session.fetchImpl(...) resolves: the status check and getReader()
ResponseArrives(w) ==
  /\ UNCHANGED <<vars, rangeVars, nuxtVars>>
  /\ w \in DOMAIN workers
  /\ workers[w].pc = "fetch"
  /\ \E status \in RangeStatuses, hasBody \in BOOLEAN :
       IF ~OkRangeStatus(status)
       THEN WorkerThrows(w, MovieboxApiError(<<"Unexpected status", status,
                                               "for range download.">>))
       ELSE IF ~hasBody
       THEN WorkerThrows(w, MovieboxApiError(<<"Unable to read download stream.">>))
       ELSE /\ workers' =
                 [workers EXCEPT ![w] =
                    [@ EXCEPT !.pc = "read",
                              !.left = (workers[w].range.end - workers[w].range.start + 1)
                                         \div UnitBytes]]
            /\ UNCHANGED <<dlOutcome, dlpc>>
  /\ UNCHANGED <<positionalAppend, fileExists, fileCells, fileAtStart, dlOpts,
                 handle, closeCount, plan, queue, downloadedBytes, progress,
                 requests, primingCalls, requestsAfterSettle, writesAfterClose>>

\* await reader.read() yields a buffer: fileHandle.write, the counters and
\* notifyProgress(); on a closed handle the write rejects and the worker throws
ChunkRead(w) ==
  /\ UNCHANGED <<vars, rangeVars, nuxtVars>>
  /\ w \in DOMAIN workers
  /\ workers[w].pc = "read"
  /\ workers[w].left > 0
  /\ IF handle.state = "open"
     THEN /\ fileCells' =
               FileWrite(fileCells, handle.flags, positionalAppend,
                         workers[w].offset,
                         RemoteCell(workers[w].offset \div UnitBytes))
          /\ workers' = [workers EXCEPT ![w] =
                           [@ EXCEPT !.offset = @ + UnitBytes, !.left = @ - 1]]
          /\ downloadedBytes' = downloadedBytes + UnitBytes
          /\ progress' = Notified(progress, downloadedBytes + UnitBytes,
                                  dlOpts.sizeBytes)
          /\ UNCHANGED <<writesAfterClose, dlOutcome, dlpc>>
     ELSE /\ writesAfterClose' = writesAfterClose + 1
          /\ WorkerThrows(w, [name |-> "Error", message |-> <<"EBADF">>])
          /\ UNCHANGED <<fileCells, downloadedBytes, progress>>
  /\ UNCHANGED <<positionalAppend, fileExists, fileAtStart, dlOpts, handle,
                 closeCount, plan, queue, requests, primingCalls,
                 requestsAfterSettle>>

\* (variant: the worker takes the last range of the queue)
BodyDone_Lifo(w) ==
  /\ UNCHANGED <<vars, rangeVars, nuxtVars>>
  /\ w \in DOMAIN workers
  /\ workers[w].pc = "read"
  /\ workers[w].left = 0
  /\ IF queue # <<>>
     THEN /\ workers' = [workers EXCEPT ![w] = Fetching(queue[Len(queue)])]
          /\ queue' = SubSeq(queue, 1, Len(queue) - 1)
          /\ requests' = Append(requests, RangeRequest(queue[Len(queue)], dlOpts))
          /\ requestsAfterSettle' =
               IF dlpc = "settled" THEN requestsAfterSettle + 1
               ELSE requestsAfterSettle
          /\ UNCHANGED <<dlOutcome, dlpc, progress>>
     ELSE /\ workers' = [workers EXCEPT ![w] = [@ EXCEPT !.pc = "done"]]
          /\ IF dlpc = "running"
                /\ \A v \in DOMAIN workers : v # w => workers[v].pc = "done"
             THEN /\ progress' = Notified(progress, downloadedBytes, dlOpts.sizeBytes)
                  /\ dlOutcome' = Resolved("void")
                  /\ dlpc' = "closing"
             ELSE UNCHANGED <<dlOutcome, dlpc, progress>>
          /\ UNCHANGED <<queue, requests, requestsAfterSettle>>
  /\ UNCHANGED <<positionalAppend, fileExists, fileCells, fileAtStart, dlOpts,
                 handle, closeCount, plan, downloadedBytes, primingCalls,
                 writesAfterClose>>

\* await reader.read() reports the end of the body: the while test, and
\* either the next range request or the return of the worker; when the last
\* worker returns, Promise.all resolves and notifyProgress() is called
BodyDone(w) ==
  /\ UNCHANGED <<vars, rangeVars, nuxtVars>>
  /\ w \in DOMAIN workers
  /\ workers[w].pc = "read"
  /\ workers[w].left = 0
  /\ IF queue # <<>>
     THEN /\ workers' = [workers EXCEPT ![w] = Fetching(Head(queue))]
          /\ queue' = Tail(queue)
          /\ requests' = Append(requests, RangeRequest(Head(queue), dlOpts))
          /\ requestsAfterSettle' =
               IF dlpc = "settled" THEN requestsAfterSettle + 1
               ELSE requestsAfterSettle
          /\ UNCHANGED <<dlOutcome, dlpc, progress>>
     ELSE /\ workers' = [workers EXCEPT ![w] = [@ EXCEPT !.pc = "done"]]
          /\ IF dlpc = "running"
                /\ \A v \in DOMAIN workers : v # w => workers[v].pc = "done"
             THEN /\ progress' = Notified(progress, downloadedBytes, dlOpts.sizeBytes)
                  /\ dlOutcome' = Resolved("void")
                  /\ dlpc' = "closing"
             ELSE UNCHANGED <<dlOutcome, dlpc, progress>>
          /\ UNCHANGED <<queue, requests, requestsAfterSettle>>
  /\ UNCHANGED <<positionalAppend, fileExists, fileCells, fileAtStart, dlOpts,
                 handle, closeCount, plan, downloadedBytes, primingCalls,
                 writesAfterClose>>

\* finally: await fileHandle.close(); then the call settles
Close ==
  /\ UNCHANGED <<vars, rangeVars, nuxtVars>>
  /\ dlpc = "closing"
  /\ handle' = [handle EXCEPT !.state = "closed"]
  /\ closeCount' = closeCount + 1
  /\ dlpc' = "settled"
  /\ UNCHANGED <<positionalAppend, fileExists, fileCells, fileAtStart, dlOpts,
                 dlOutcome, plan, queue, workers, downloadedBytes, progress,
                 requests, primingCalls, requestsAfterSettle, writesAfterClose>>

DownloadNext ==
  \/ DlInvoke
  \/ PrimingFails
  \/ PrimedAndOpened
  \/ \E w \in WorkerIds : FetchRejects(w)
  \/ \E w \in WorkerIds : ResponseArrives(w)
  \/ \E w \in WorkerIds : ChunkRead(w)
  \/ \E w \in WorkerIds : BodyDone(w)
  \/ Close

DownloadSpec == DlInit /\ [][DownloadNext]_allVars

\* ------------------------------------------------ the download, observed
\* error instanceof MovieboxApiError
MovieboxApiErrorClasses ==
  {"MovieboxApiError", "MovieboxHttpError", "EmptyResponseError",
   "UnsuccessfulResponseError", "GeoBlockedError", "MirrorExhaustedError",
   "RetryLimitExceededError"}
IsMovieboxApiError(error) == error.name \in MovieboxApiErrorClasses

DlSettled == dlpc = "settled"
DlResolved == DlSettled /\ dlOutcome.state = "resolved"
DlRejected == DlSettled /\ dlOutcome.state = "rejected"

\* no worker has anything left to do
Quiescent == \A w \in DOMAIN workers : workers[w].pc \in {"done", "failed"}

\* sizes in bytes
SizeAtStart == Len(fileAtStart.cells) * UnitBytes
FileSize == Len(fileCells) * UnitBytes

DlTypeOK ==
  /\ dlpc \in {"idle", "priming", "planning", "running", "closing", "settled"}
  /\ handle.state \in {"none", "open", "closed"}
  /\ Len(fileCells) <= 2 * MaxUnits + 1

\* the ranges of the requests issued so far
RequestedRanges == { requests[i].Range : i \in 1..Len(requests) }

\* every range of ranges was requested, once, and nothing else was
RequestedExactly(ranges) ==
  /\ Len(requests) = Len(ranges)
  /\ RequestedRanges = { ranges[i] : i \in 1..Len(ranges) }

\* the known total T of the call, and the T bytes of the remote file
TotalKnown == dlOpts.sizeBytes.defined
T == dlOpts.sizeBytes.value
RemoteContent == RemotePrefix(T \div UnitBytes)

\* ------------------------------------------------------------------ C13
\* mode 'resume' with 0 < e < T bytes on disk that are the first e bytes of
\* the remote content
ResumeOfPrefix ==
  /\ dlpc # "idle"
  /\ dlOpts.mode = "resume"
  /\ TotalKnown
  /\ 0 < SizeAtStart /\ SizeAtStart < T
  /\ fileAtStart.cells = RemotePrefix(SizeAtStart \div UnitBytes)

\* C13: resume correctness.  When a resume of a prefix of e bytes (0 < e < T)
\* has completed, exactly the ranges covering [e, T) were requested and the
\* destination equals the T bytes of the remote content, whatever the number
\* of workers and their interleaving.
C13_ResumeCorrectness ==
  (ResumeOfPrefix /\ DlResolved) =>
    /\ RequestedExactly(buildRanges(SizeAtStart, dlOpts.sizeBytes, ChunkSize(dlOpts)))
    /\ Tiles(plan, SizeAtStart, T, ChunkSize(dlOpts))
    /\ fileCells = RemoteContent

\* ------------------------------------------------------------------ C14
\* C14: overwrite truncation.  In mode 'overwrite', whatever the destination
\* held before, the file after a successful download of a known total T has
\* size T and holds the remote content.
C14_OverwriteTruncation ==
  (dlOpts.mode = "overwrite" /\ TotalKnown /\ DlResolved) =>
    /\ FileSize = T
    /\ fileCells = RemoteContent

\* an overwrite of a larger file of other bytes has succeeded, two workers
\* having written the remote content
C14_Witness ==
  /\ dlOpts.mode = "overwrite"
  /\ DlResolved
  /\ SizeAtStart > T
  /\ T = MaxUnits * UnitBytes
  /\ Len(workers) = 2
  /\ fileAtStart.cells # RemotePrefix(Len(fileAtStart.cells))

\* ------------------------------------------------------------------ C15
\* mode 'auto' called on an existing file of at least the known target size
AutoOnCompleteFile ==
  /\ dlpc # "idle"
  /\ dlOpts.mode = "auto"
  /\ TotalKnown
  /\ fileAtStart.exists
  /\ SizeAtStart >= T

\* C15: auto short-circuit.  A call in mode 'auto' on an existing file whose
\* size is at least the known target size issues no transport call, neither
\* a priming request nor a range request, leaves the content of the file as it
\* was, starts no worker, and returns.
C15_AutoShortCircuit ==
  AutoOnCompleteFile =>
    /\ primingCalls = 0
    /\ requests = <<>>
    /\ fileCells = fileAtStart.cells
    /\ workers = NoWorkers
    /\ DlSettled => DlResolved

\* ------------------------------------------------------------------ C16
\* mode 'auto' on a destination holding e < T bytes (e = 0 if it is absent),
\* once the workers have been started
AutoOnShortFile ==
  /\ dlOpts.mode = "auto"
  /\ TotalKnown
  /\ SizeAtStart < T
  /\ dlpc \in {"running", "closing", "settled"}
  /\ handle.state # "none"

\* C16: auto mode start offset.  In mode 'auto' with e < T bytes in the
\* destination the planned ranges tile [e, T), the requests issued are among
\* them, the e bytes that were there are kept, and downloadedBytes is never
\* below e; when the call resolves exactly those ranges were requested.
C16_AutoStartOffset ==
  AutoOnShortFile =>
    /\ Tiles(plan, SizeAtStart, T, ChunkSize(dlOpts))
    /\ RequestedRanges \subseteq { plan[i] : i \in 1..Len(plan) }
    /\ SubSeq(fileCells, 1, Len(fileAtStart.cells)) = fileAtStart.cells
    /\ downloadedBytes >= SizeAtStart
    /\ DlResolved => RequestedExactly(plan)

\* ------------------------------------------------------------------ C17
\* mode 'resume' called on a destination that is absent or empty
ResumeOfNothing ==
  /\ dlpc # "idle"
  /\ dlOpts.mode = "resume"
  /\ SizeAtStart = 0

CeilDiv(n, d) == (n + d - 1) \div d

\* the bytes a range spans
Span(range) == range.end - range.start + 1

\* a download of known total T with a chunk size c >= 1 given by the caller,
\* from a start offset below T
ChunkedDownload ==
  /\ dlpc \in {"running", "closing", "settled"}
  /\ TotalKnown
  /\ dlOpts.chunkSize.defined
  /\ dlOpts.chunkSize.value >= 1
  /\ plan # <<>>

\* C18: chunk size is honoured.  With a chunk size c >= 1 given by the
\* caller, every range request spans at most c bytes, and a download that
\* succeeds has issued ceil((T - s) / c) range requests, s being its start
\* offset.
C18_ChunkSizeHonoured ==
  ChunkedDownload =>
    /\ \A i \in 1..Len(requests) : Span(requests[i].Range) <= dlOpts.chunkSize.value
    /\ DlResolved =>
         Len(requests) = CeilDiv(T - plan[1].start, dlOpts.chunkSize.value)

\* ------------------------------------------------------------------ C19
\* the Referer values the caller supplied in options.headers
CallerReferer == HeaderValues(dlOpts.headers, "Referer")

\* C19: header precedence.  Every range request carries one Referer header:
\* the caller's value when options.headers supplies a Referer, the CDN
\* referer 'https://fmoviesunblocked.net/' otherwise.
C19_HeaderPrecedence ==
  \A i \in 1..Len(requests) :
    HeaderValues(requests[i].headers, "Referer") =
      IF CallerReferer # <<>> THEN CallerReferer ELSE <<DEFAULT_REFERER>>

\* ------------------------------------------------------------------ C20
\* the call has rejected because of a range response whose status is neither
\* 200 nor 206
RejectedForStatus ==
  /\ DlRejected
  /\ dlOutcome.error.name = "MovieboxApiError"
  /\ Len(dlOutcome.error.message) > 1
  /\ Head(dlOutcome.error.message) = "Unexpected status"

\* C20: abort on unexpected status.  From the moment the call has rejected
\* because of a range response with a status other than 200 and 206, no
\* worker issues another range request.
C20_AbortOnUnexpectedStatus ==
  [][RejectedForStatus => requests' = requests]_allVars

\* ------------------------------------------------------------------ C21
\* C21: file handle release.  Once the destination has been opened, the
\* handle is closed at most once at any time, and exactly once when the call
\* has settled, whether it resolved (completion, auto already complete, empty
\* plan) or rejected (nothing to resume, a worker failure); a call that is
\* leaving the try block can always close it.
C21_HandleRelease ==
  /\ closeCount <= 1
  /\ (closeCount = 1) = (handle.state = "closed")
  /\ (DlSettled /\ handle.state # "none") => closeCount = 1
  /\ (dlpc = "closing") => (handle.state = "open" /\ ENABLED Close)
  /\ (handle.state = "open") => dlpc \in {"planning", "running", "closing"}

\* a worker has failed on a bad status while another was still reading, and
\* the call has rejected with the handle closed once
C21_Witness ==
  /\ DlRejected
  /\ closeCount = 1
  /\ \E w \in DOMAIN workers : workers[w].pc = "failed"
  /\ \E w \in DOMAIN workers : workers[w].pc = "read"

\* ------------------------------------------------------------------ C22
\* C22: monotonic progress.  The downloadedBytes values passed to onProgress
\* never decrease from one callback to the next, whatever the number of
\* workers and their interleaving; the value reported is the counter at that
\* moment, and a reported percentage is never above 100 (1000 tenths).
C22_MonotonicProgress ==
  /\ [](/\ ~progress.decreased
        /\ progress.reported =>
             /\ progress.downloadedBytes <= downloadedBytes
             /\ progress.percentage.defined => progress.percentage.value <= 1000)
  /\ [][progress' # progress =>
          /\ progress'.downloadedBytes = downloadedBytes'
          /\ progress.reported => progress'.downloadedBytes >= progress.downloadedBytes]_allVars

\* three workers have reported progress in turn up to 100 percent
C22_Witness ==
  /\ Len(workers) = 3
  /\ progress.reported
  /\ progress.downloadedBytes = 3 * UnitBytes
  /\ progress.percentage = Some(1000)
  /\ DlResolved

\* ------------------------------------------------------------------ C23
\* every transport call of the session's own requests that is in flight
\* (first attempt, retry, fallback mirror, cookie priming) carries the
\* session's dispatcher
SessionCallsRouted ==
  \A p \in Callers :
    pc[p] = "fetch" => inflight[p].dispatcher = dispatcher

\* C23: proxy routing.  When the session has a proxy dispatcher, every range
\* request of a download made with that session carries it, as the session's
\* own transport calls do.
C23_ProxyRouting ==
  dispatcher.defined =>
    /\ SessionCallsRouted
    /\ \A i \in 1..Len(requests) : requests[i].dispatcher = dispatcher

\* ------------------------------------------------------------------ C24
\* the base URLs the performRequest activation of caller p has attempted so
\* far, in order: the mirrors that failed, then the one being attempted
AttemptedBases(p) ==
  [i \in 1..Len(frame[p].failures) |-> frame[p].failures[i].url.base]
    \o (IF pc[p] \in {"fetch", "delay"} THEN <<baseUrls[frame[p].baseIndex + 1]>>
        ELSE <<>>)

\* the base URLs recorded as failed by a request rejected for exhaustion
ExhaustedBases(p) ==
  LET f == result[p].error.failures
  IN [i \in 1..Len(f) |-> f[i].url.base]

Distinct(seq) == \A i, j \in 1..Len(seq) : i # j => seq[i] # seq[j]

\* seq walks the list of base URLs from its first element on, wrapping around
Consecutive(seq) ==
  \A i \in 1..Len(seq) : seq[i] = (seq[1] + i - 1) % Len(baseUrls)

\* C24: single scan of the mirror list.  Every request, also when another
\* request on the same session moves the mirror cursor in between, attempts
\* each base URL at most once, in cyclic order from the one it started at,
\* and has attempted all of them when it rejects for mirror exhaustion.
C24_SingleScan ==
  \A p \in Callers :
    /\ pc[p] \in {"fetch", "delay"} =>
         /\ Distinct(AttemptedBases(p))
         /\ Consecutive(AttemptedBases(p))
    /\ RejectedWith(p, "MirrorExhaustedError") =>
         /\ Distinct(ExhaustedBases(p))
         /\ Len(ExhaustedBases(p)) = Len(baseUrls)

\* ------------------------------------------------------------------ C25
\* caller p starts a call whose first transport call is issued
FirstCall(p) == pc[p] \in {"idle", "done"} /\ pc'[p] = "fetch"

\* C25: working mirror is preferred.  Once a request has obtained its
\* response through a base URL, the cursor designates that base URL and
\* buildUrl without an override composes from it; the cursor stays there
\* until the next request starts, and the first transport call of that
\* request targets the base URL the cursor designates.
C25_WorkingMirrorPreferred ==
  /\ [](\A p \in SequentialCallers :
          pc[p] = "body" =>
            /\ baseUrls[currentBaseIndex + 1] = response[p].url.base
            /\ buildUrl(RESOURCE_PATH, currentBaseIndex).base = response[p].url.base)
  /\ [][\A p \in SequentialCallers :
          /\ (pc[p] = "body" /\ pc'[p] = "done") => currentBaseIndex' = currentBaseIndex
          /\ FirstCall(p) =>
               /\ inflight'[p].url.base = baseUrls[currentBaseIndex + 1]
               /\ currentBaseIndex' = currentBaseIndex]_allVars

\* an earlier request succeeded through the second base URL, and the first
\* transport call of the next request is in flight to it
C25_Witness ==
  /\ cursorAtStart[1] = 1
  /\ pc[1] = "fetch"
  /\ calls[1] = [prime |-> 0, main |-> 1]
  /\ frame[1].mirrorOffset = 0
  /\ inflight[1].url.base = baseUrls[2]

\* ------------------------------------------------------------------ C26
\* C26: the mirror cursor changes only on a fully successful request.  A
\* fetchJson or fetchHtml call that has rejected, for whatever reason, has
\* left the mirror cursor at the value it had when the call started.
C26_CursorOnlyOnSuccess ==
  \A p \in SequentialCallers :
    (RejectedCall(p) /\ op[p].kind \in {"fetchJson", "fetchHtml"}) =>
      currentBaseIndex = cursorAtStart[p]

\* ------------------------------------------------------------------ C27
\* C27: cookie priming suppresses mirror advance.  A call to
\* ensureSessionCookies never changes the mirror cursor: while the call runs
\* and once it has settled, the cursor has the value it had when the call
\* started, also when the priming request succeeded on another mirror.
C27_PrimingKeepsCursor ==
  \A p \in SequentialCallers :
    (op[p].kind = "ensureSessionCookies" /\ pc[p] # "idle") =>
      currentBaseIndex = cursorAtStart[p]

\* ------------------------------------------------------------------ C28
\* the failures performRequest has recorded so far in the call of p: its
\* local list while the mirror loop runs, and the list carried by the
\* MirrorExhaustedError once the loop has ended
RecordedFailures(p) ==
  IF pc[p] \in {"fetch", "delay"} THEN frame[p].failures
  ELSE IF RejectedWith(p, "MirrorExhaustedError") THEN result[p].error.failures
  ELSE <<>>

\* a failure is recorded for the mirror p is calling
FailureRecorded(p) ==
  /\ pc[p] = "fetch"
  /\ Len(RecordedFailures(p)') = Len(frame[p].failures) + 1

\* the form the claim gives to the error recorded for a mirror whose retry
\* sub-loop, with the given number of permitted attempts, ended with terminal
TerminalForm(terminal, permitted) ==
  IF permitted > 1
  THEN RetryLimitExceededError(terminal.message, permitted - 1)
  ELSE terminal

LastRecorded(p) == RecordedFailures(p)[Len(RecordedFailures(p))].error

\* C28: when the retry sub-loop against a mirror ends with a non-geo error,
\* the error recorded for that mirror is a RetryLimitExceededError with the
\* terminal error's message and attempts = maxAttempts - 1 if more than one
\* attempt was permitted, and the terminal error itself if only one was.
\* The terminal error is the network error of the last transport call or the
\* MovieboxHttpError built from the last response.
C28_TerminalErrorForm ==
  /\ [](\A p \in SequentialCallers :
          \A i \in 1..Len(RecordedFailures(p)) :
            (RecordedFailures(p)[i].error.name = "RetryLimitExceededError")
              = (retryPolicy.maxAttempts > 1))
  /\ [][\A p \in SequentialCallers :
          /\ (TransportThrows(p) /\ FailureRecorded(p)) =>
               LastRecorded(p)' = TerminalForm(TransportError, retryPolicy.maxAttempts)
          /\ \A status \in FailStatuses : \A headers \in FailHeaderChoices :
               (ResponseReceived(p, status, headers) /\ FailureRecorded(p)) =>
                 LastRecorded(p)' =
                   TerminalForm(MovieboxHttpError(
                                  <<"Moviebox API request failed with status", status>>,
                                  status, inflight[p].url),
                                retryPolicy.maxAttempts)]_allVars

\* all mirrors failed with three attempts permitted: the first after a network
\* error, the second after a 500 answer; both are recorded as
\* RetryLimitExceededError with attempts 2 and the message of the terminal error
C28_Witness ==
  /\ retryPolicy.maxAttempts = 3
  /\ RejectedWith(1, "MirrorExhaustedError")
  /\ Len(RecordedFailures(1)) = 2
  /\ RecordedFailures(1)[1].error =
       RetryLimitExceededError(TransportError.message, 2)
  /\ RecordedFailures(1)[2].error =
       RetryLimitExceededError(<<"Moviebox API request failed with status", 500>>, 2)

\* ------------------------------------------------------------------ C29
\* a session with the default retry predicates and any permitted number of
\* attempts, used by one caller
RetryInit ==
  /\ baseUrls \in { [i \in 1..n |-> i - 1] : n \in 1..MaxBaseUrls }
  /\ retryPolicy \in
       { [maxAttempts |-> PolicyMaxAttempts(a, Undefined),
          shouldRetryError |-> "default", shouldRetryResponse |-> "default"] :
           a \in {Undefined} \cup { Some(v) : v \in 0..MaxConfiguredAttempts } }
  /\ dispatcher = NoDispatcher
  /\ retryOptions = OptionsNotRecorded
  /\ SessionFields
  /\ RangeIdle
  /\ DlIdle
  /\ NuxtIdle

\* the calls and answers of these runs: no priming inside fetchJson, answers
\* without cookies, every kind of status the retry decisions tell apart
RetryOperations == { o \in Operations : ~o.requireCookies }
RetryStatuses == {200, 403, 404, 408, 429, 500}
RetryableStatuses == { s \in RetryStatuses : DefaultResponsePredicate(s) }

RetryNext ==
  \E p \in SequentialCallers :
    \/ \E o \in RetryOperations : Start(p, o)
    \/ TransportThrows(p)
    \/ \E status \in RetryStatuses : ResponseReceived(p, status, NoSetCookie)
    \/ DelayElapsed(p)
    \/ PrimingDrained(p)
    \/ \E body \in Bodies : BodyRead(p, body)

RetrySpec == RetryInit /\ [][RetryNext]_allVars

\* the transport call of p fails in a way the default policy retries: a
\* network error, or an answer with status >= 500, 429 or 408
RetryableFailure(p) ==
  \/ TransportThrows(p)
  \/ \E status \in RetryableStatuses : ResponseReceived(p, status, NoSetCookie)

\* the transport calls the running performRequest of p has made
TransportCalls(p) ==
  IF op[p].kind = "ensureSessionCookies" THEN calls[p].prime ELSE calls[p].main

\* the errors of intermediate failures
IntermediateFailure(error) ==
  \/ error = TransportError
  \/ error.name = "RetryLimitExceededError"
  \/ error.name = "MovieboxHttpError" /\ error.status \in RetryableStatuses

\* C29: under the default retry policy with maxAttempts = A, a retryable
\* failure (network error, status >= 500, 429, 408) before the A-th call is
\* followed by the delay and one more call to the same mirror, and the A-th
\* one ends the mirror: a mirror that only fails receives exactly A transport
\* calls, one at a time, before the next mirror is called.  The failures do
\* not reach the caller: a call that a mirror answered with 2xx is pending,
\* and a call rejects with MirrorExhaustedError only when every mirror failed.
C29_RetriedLocally ==
  /\ [](\A p \in SequentialCallers :
          /\ pc[p] \in {"fetch", "delay"} =>
               /\ frame[p].attempt \in 1..retryPolicy.maxAttempts
               /\ TransportCalls(p) =
                    retryPolicy.maxAttempts * Len(frame[p].failures) + frame[p].attempt
          /\ RejectedWith(p, "MirrorExhaustedError") =>
               /\ Len(result[p].error.failures) = Len(baseUrls)
               /\ TransportCalls(p) = retryPolicy.maxAttempts * Len(baseUrls)
          /\ RejectedCall(p) => ~IntermediateFailure(result[p].error))
  /\ [][\A p \in SequentialCallers :
          /\ RetryableFailure(p) =>
               IF frame[p].attempt < retryPolicy.maxAttempts
               THEN /\ pc'[p] = "delay"
                    /\ frame'[p].baseIndex = frame[p].baseIndex
                    /\ frame'[p].failures = frame[p].failures
                    /\ result'[p] = Pending
               ELSE FailureRecorded(p)
          /\ (pc[p] = "delay" /\ pc'[p] # "delay") =>
               /\ pc'[p] = "fetch"
               /\ inflight'[p].url.base = baseUrls[frame[p].baseIndex + 1]
               /\ frame'[p].attempt = frame[p].attempt + 1
               /\ TransportCalls(p)' = TransportCalls(p) + 1
          /\ FailureRecorded(p) => frame[p].attempt = retryPolicy.maxAttempts
          /\ (pc[p] = "fetch" /\ pc'[p] = "body") => result'[p] = Pending]_allVars

\* three attempts are permitted; the first mirror failed three times, with a
\* network error among the failures, the second mirror answered the fourth
\* call with 2xx and the page was returned to the caller
C29_Witness ==
  /\ retryPolicy.maxAttempts = 3
  /\ op[1].kind = "fetchHtml"
  /\ result[1].state = "resolved"
  /\ attemptsMade[1] = <<3>>
  /\ calls[1].main = 4
  /\ currentBaseIndex = 1
  /\ cursorAtStart[1] = 0

\* ------------------------------------------------------------------ C30
\* what options.retry.maxAttempts and options.maxRetries can be
MaxAttemptsOptions ==
  {Undefined} \cup { Some(v) : v \in -1..MaxConfiguredAttempts }
MaxRetriesOptions ==
  {Undefined} \cup { Some(v) : v \in -1..(MaxConfiguredAttempts - 1) }

\* constructor, with the retry options it was given recorded
AttemptInit ==
  /\ baseUrls \in { [i \in 1..n |-> i - 1] : n \in 1..MaxBaseUrls }
  /\ retryOptions \in
       { [recorded |-> TRUE, maxAttempts |-> a, maxRetries |-> r] :
           a \in MaxAttemptsOptions, r \in MaxRetriesOptions }
  /\ retryPolicy \in
       { [maxAttempts |-> PolicyMaxAttempts(retryOptions.maxAttempts,
                                            retryOptions.maxRetries),
          shouldRetryError |-> e, shouldRetryResponse |-> "default"] :
           e \in ErrorPredicateKinds }
  /\ dispatcher = NoDispatcher
  /\ SessionFields
  /\ RangeIdle
  /\ DlIdle
  /\ NuxtIdle

AttemptSpec == AttemptInit /\ [][RetryNext]_allVars

\* the number of attempts per mirror the claim gives for the recorded options
PermittedAttempts ==
  IF retryOptions.maxAttempts.defined THEN Max(1, retryOptions.maxAttempts.value)
  ELSE IF retryOptions.maxRetries.defined THEN Max(0, retryOptions.maxRetries.value) + 1
  ELSE 3

\* C30: the number of attempts permitted per mirror is max(1,
\* retry.maxAttempts) when retry.maxAttempts is given, otherwise max(0,
\* maxRetries) + 1 when maxRetries is given, otherwise 3.  It is at least 1,
\* it bounds the attempts of every retry sub-loop, and with
\* retry.maxAttempts = 0 every mirror receives exactly one transport call.
C30_AttemptNormalisation ==
  /\ retryPolicy.maxAttempts = PermittedAttempts
  /\ retryPolicy.maxAttempts >= 1
  /\ \A p \in SequentialCallers :
       /\ pc[p] \in {"fetch", "delay"} =>
            /\ frame[p].maxAttempts = PermittedAttempts
            /\ frame[p].attempt \in 1..PermittedAttempts
       /\ retryOptions.maxAttempts = Some(0) =>
            /\ pc[p] # "delay"
            /\ pc[p] = "fetch" =>
                 TransportCalls(p) = Len(frame[p].failures) + 1
            /\ RejectedWith(p, "MirrorExhaustedError") =>
                 TransportCalls(p) = Len(baseUrls)

\* retry.maxAttempts is 0 and maxRetries is 1: one attempt is permitted, and
\* both mirrors have failed after one transport call each
C30_Witness ==
  /\ retryOptions.maxAttempts = Some(0)
  /\ retryOptions.maxRetries = Some(1)
  /\ retryPolicy.maxAttempts = 1
  /\ Len(baseUrls) = 2
  /\ RejectedWith(1, "MirrorExhaustedError")
  /\ calls[1].main = 2
  /\ attemptsMade[1] = <<1, 1>>

\* ------------------------------------------------------------------ C31
\* more Set-Cookie header values: a second value for "a" and its expiry
SC_a2 == <<"a", "=", "2">>
SC_aExpired == <<"a", "=", " ", ";", " ", "M", "a", "x", "-", "A", "g", "e", "=", "0">>

\* the response headers of the cookie runs; any response may carry them.
\* A Headers object without raw() hands over several Set-Cookie values joined
\* into one string.
CookieHeaderChoices ==
  OkHeaderChoices \cup
  { [setCookie |-> <<SC_a2>>, raw |-> FALSE],
    [setCookie |-> <<SC_aExpired>>, raw |-> FALSE],
    [setCookie |-> <<SC_b2>>, raw |-> FALSE],
    [setCookie |-> <<SC_a2, SC_bExpired>>, raw |-> TRUE],
    [setCookie |-> <<SC_a2, SC_bExpired>>, raw |-> FALSE] }

CookieStatuses == {200, 403, 500}
CookieOperations == { o \in Operations : o.kind # "fetchJson" }
CookieBodies == { b \in Bodies : b.text \in {"empty", "notjson"} }

\* a session with one or more base URLs and two attempts per mirror
CookieInit ==
  /\ baseUrls \in { [i \in 1..n |-> i - 1] : n \in 1..MaxBaseUrls }
  /\ retryPolicy = [maxAttempts |-> PolicyMaxAttempts(Undefined, Some(1)),
                    shouldRetryError |-> "default", shouldRetryResponse |-> "default"]
  /\ dispatcher = NoDispatcher
  /\ retryOptions = OptionsNotRecorded
  /\ SessionFields
  /\ RangeIdle
  /\ DlIdle
  /\ NuxtIdle

CookieNext ==
  \E p \in SequentialCallers :
    \/ \E o \in CookieOperations : Start(p, o)
    \/ TransportThrows(p)
    \/ \E status \in CookieStatuses :
         \E headers \in CookieHeaderChoices : ResponseReceived(p, status, headers)
    \/ DelayElapsed(p)
    \/ PrimingDrained(p)
    \/ \E body \in CookieBodies : BodyRead(p, body)

CookieSpec == CookieInit /\ [][CookieNext]_allVars

\* name and value a captured Set-Cookie string stands for: the text before
\* the first "=" and the text between it and the first ";", without the
\* surrounding blanks
CookieMeaning(cookie) ==
  CASE cookie = SC_a1 -> [name |-> <<"a">>, value |-> <<"1">>]
    [] cookie = SC_a2 -> [name |-> <<"a">>, value |-> <<"2">>]
    [] cookie = SC_aExpired -> [name |-> <<"a">>, value |-> <<>>]
    [] cookie = SC_b2 -> [name |-> <<"b">>, value |-> <<"2">>]
    [] cookie = SC_bExpired -> [name |-> <<"b">>, value |-> <<>>]
    [] cookie = SC_noName -> [name |-> <<>>, value |-> <<"x">>]
    [] cookie = Join(<<SC_a2, SC_bExpired>>, <<",", " ">>) ->
         [name |-> <<"a">>, value |-> <<"2", ",", " ", "b", "=">>]

CookieNames == {<<"a">>, <<"b">>}

\* the values the jar holds under a name: none or one
JarValues(jar, name) == { jar[i][2] : i \in { j \in 1..Len(jar) : jar[j][1] = name } }

\* what the jar holds under a name once the captured strings have been
\* applied in order: the last one of that name decides
ValuesAfter(jar, captured, name) ==
  LET naming == { i \in 1..Len(captured) : CookieMeaning(captured[i]).name = name }
  IN IF naming = {} THEN JarValues(jar, name)
     ELSE LET last == CHOOSE i \in naming : \A j \in naming : j <= i
          IN IF CookieMeaning(captured[last]).value = <<>> THEN {}
             ELSE {CookieMeaning(captured[last]).value}

\* C31: cookie jar invariant.  The jar never holds an entry with an empty
\* name or an empty value, and holds one entry per name at most.  Capturing
\* a Set-Cookie string whose value is empty removes the entry of its name,
\* capturing one with a non-empty value makes that value the entry of its
\* name, one without a name changes nothing, and no other entry changes.
C31_CookieJarInvariant ==
  /\ [](/\ \A i \in 1..Len(cookieJar) : cookieJar[i][1] # <<>> /\ cookieJar[i][2] # <<>>
        /\ \A i, j \in 1..Len(cookieJar) : cookieJar[i][1] = cookieJar[j][1] => i = j
        /\ \A i \in 1..Len(cookieJar) : cookieJar[i][1] \in CookieNames)
  /\ [][\A p \in SequentialCallers : \A headers \in CookieHeaderChoices :
          ResponseReceived(p, 200, headers) =>
            \A name \in CookieNames :
              JarValues(cookieJar', name) =
                ValuesAfter(cookieJar, getSetCookieValues(headers), name)]_allVars

\* the jar held a=1 and b=2; a response with Set-Cookie "a=2" and the expiry
\* of b has been captured: b is gone and a has the new value, in its old place
C31_Witness ==
  /\ pc[1] = "body"
  /\ response[1].headers = [setCookie |-> <<SC_a2, SC_bExpired>>, raw |-> TRUE]
  /\ cookieJar = << <<<<"a">>, <<"2">>>> >>
  /\ primedAtStart[1]

\* ------------------------------------------------------------------ C32
\* C32: cookies are captured only from the successful response.  The jar
\* changes only in the step in which a 2xx response ends a retry sub-loop,
\* and then to what the Set-Cookie headers of that response make of it; a
\* response that is not 2xx (retried, terminal or geo-blocked) leaves the jar
\* as it is whatever Set-Cookie headers it carries, and so does every other
\* step.
C32_CaptureOnlyOnSuccess ==
  [][\A p \in SequentialCallers :
       /\ \A status \in CookieStatuses \ OkStatuses : \A headers \in CookieHeaderChoices :
            ResponseReceived(p, status, headers) => cookieJar' = cookieJar
       /\ cookieJar' # cookieJar =>
            /\ pc[p] = "fetch"
            /\ pc'[p] = "body"
            /\ response'[p].status \in OkStatuses
            /\ cookieJar' = StoreCookieList(cookieJar,
                                            getSetCookieValues(response'[p].headers))]_allVars

\* the first answer, a 500, was retried; the second, a 200 with Set-Cookie
\* "a=1; Path=/", has been captured and the jar holds a=1 alone
C32_Witness ==
  /\ pc[1] = "body"
  /\ seen[1] = {StatusFailure}
  /\ calls[1].main = 2
  /\ response[1].headers = [setCookie |-> <<SC_a1>>, raw |-> FALSE]
  /\ cookieJar = JarA1
  /\ ~primedAtStart[1]

\* ------------------------------------------------------------------ C33
\* the priming request of caller p has been issued and its response is not
\* yet drained
PrimingInProgress(p) ==
  /\ pc[p] \in {"fetch", "delay", "body"}
  /\ frame[p].phase = "prime"

\* no transport call of the calls in progress has failed
TransportSucceeds == \A p \in Callers : seen[p] = {} /\ ~geoSeen[p]

\* C33: priming under concurrency.  While the transport calls succeed, the
\* callers of one session issue one priming request in total: no two of them
\* have a priming request of their own in progress, and a call that starts
\* after a priming has completed issues none.
C33_SinglePriming ==
  /\ TransportSucceeds =>
       Cardinality({ p \in Callers : PrimingInProgress(p) }) <= 1
  /\ \A p \in Callers : (primedAtStart[p] /\ pc[p] # "idle") => calls[p].prime = 0

\* ------------------------------------------------------------------ C34
\* the calls that prime: ensureSessionCookies and fetchJson with
\* requireCookies; answers with and without a cookie
PrimingOperations ==
  { o \in Operations : o.kind = "ensureSessionCookies" \/ o.requireCookies }
PrimingHeaderChoices == { NoSetCookie, [setCookie |-> <<SC_a1>>, raw |-> FALSE] }
PrimingBodies ==
  CookieBodies \cup { [text |-> "json", parsed |-> Data] }

PrimingNext ==
  \E p \in SequentialCallers :
    \/ \E o \in PrimingOperations : Start(p, o)
    \/ TransportThrows(p)
    \/ \E status \in CookieStatuses :
         \E headers \in PrimingHeaderChoices : ResponseReceived(p, status, headers)
    \/ DelayElapsed(p)
    \/ PrimingDrained(p)
    \/ \E body \in PrimingBodies : BodyRead(p, body)

PrimingSpec == CookieInit /\ [][PrimingNext]_allVars

\* the priming request of p fails in this step: the call settles straight
\* from a transport call of the priming phase
PrimingRequestFails(p) ==
  /\ pc[p] = "fetch"
  /\ frame[p].phase = "prime"
  /\ pc'[p] = "done"

\* C34: failed priming is not cached.  When the priming request fails, the
\* call that issued it rejects with the GeoBlockedError or
\* MirrorExhaustedError of that request, the cookiesInitialized flag stays
\* false, and a fetchJson with requireCookies has issued no request for its
\* own path; while the flag is false an ensureSessionCookies call issues the
\* priming request (again).
C34_FailedPrimingNotCached ==
  /\ [](\A p \in SequentialCallers :
          (RejectedCall(p) /\ calls[p].prime > 0 /\ calls[p].main = 0) =>
            /\ result[p].error.name \in {"GeoBlockedError", "MirrorExhaustedError"}
            /\ ~cookiesInitialized)
  /\ [][\A p \in SequentialCallers :
          /\ PrimingRequestFails(p) =>
               /\ result'[p].state = "rejected"
               /\ result'[p].error.name \in {"GeoBlockedError", "MirrorExhaustedError"}
               /\ ~cookiesInitialized'
               /\ calls'[p].main = 0
               /\ calls'[p].prime > 0
          /\ (pc[p] = "done" /\ ~cookiesInitialized /\ pc'[p] # "done") =>
               /\ pc'[p] = "fetch"
               /\ frame'[p].phase = "prime"
               /\ inflight'[p].url.path = APP_INFO_PATH
               /\ calls'[p] = [prime |-> 1, main |-> 0]]_allVars

\* a fetchJson with requireCookies was geo-blocked on its priming request: it
\* is rejected after that one call, the flag is still false
C34_Witness ==
  /\ op[1].kind = "fetchJson"
  /\ op[1].requireCookies
  /\ RejectedWith(1, "GeoBlockedError")
  /\ calls[1] = [prime |-> 1, main |-> 0]
  /\ ~cookiesInitialized

\* ------------------------------------------------------------------ C35
\* the range requests in flight: issued, and not yet fully read and written
InFlight == { w \in DOMAIN workers : workers[w].pc \in {"fetch", "read"} }

\* the workers have been started
WorkersStarted == dlpc \in {"running", "closing", "settled"} /\ plan # <<>>

\* C35: bounded parallelism.  A download starts min(max(1, parallel), number
\* of planned ranges) workers, parallel being DEFAULT_PARALLELISM when it is
\* not given; the number of range requests in flight never exceeds it, and
\* every range taken off the queue has been requested by one of them.
C35_BoundedParallelism ==
  /\ WorkersStarted =>
       /\ Len(workers) =
            Min(Max(1, OrElse(dlOpts.parallel, DEFAULT_PARALLELISM)), Len(plan))
       /\ Cardinality(InFlight) <= Len(workers)
       /\ Len(requests) + Len(queue) = Len(plan)
       /\ Len(requests) >= Len(workers)
  /\ ~WorkersStarted => workers = NoWorkers /\ requests = <<>>

\* parallel is 2 and three ranges are planned: two workers run, both with a
\* request in flight, and the third range waits in the queue
C35_Witness ==
  /\ dlpc = "running"
  /\ dlOpts.parallel = Some(2)
  /\ Len(plan) = 3
  /\ Len(workers) = 2
  /\ Cardinality(InFlight) = 2
  /\ Len(queue) = 1

\* ------------------------------------------------------------------ C36
\* the ranges requested so far, in the order of the requests
RequestOrder == [i \in 1..Len(requests) |-> requests[i].Range]

\* C36: each range is fetched exactly once.  The ranges are requested in the
\* order of the plan, which is ascending in the start offset: the requests
\* made so far are the first ranges of the plan, the queue holds the rest, no
\* two workers hold the same range, and a download that completes has
\* requested every range of the plan exactly once, whatever the interleaving
\* of the workers.
C36_EachRangeOnce ==
  /\ \A i, j \in 1..Len(plan) : i < j => plan[i].start < plan[j].start
  /\ WorkersStarted =>
       /\ Len(requests) <= Len(plan)
       /\ RequestOrder = SubSeq(plan, 1, Len(requests))
       /\ queue = SubSeq(plan, Len(requests) + 1, Len(plan))
       /\ \A v, w \in InFlight : v # w => workers[v].range # workers[w].range
       /\ \A w \in DOMAIN workers :
            \E i \in 1..Len(requests) : workers[w].range = requests[i].Range
  /\ (DlResolved /\ plan # <<>>) =>
       /\ RequestOrder = plan
       /\ queue = <<>>

\* three ranges and two workers: the download has completed after the
\* worker that finished first took the third range
C36_Witness ==
  /\ DlResolved
  /\ Len(plan) = 3
  /\ Len(workers) = 2
  /\ RequestOrder = plan
  /\ workers[1].range = plan[1]
  /\ workers[2].range = plan[3]

\* ------------------------------------------------------------------ C37
\* worker w writes a buffer to the file in this step
Writes(w) == handle.state = "open" /\ ChunkRead(w)

\* the cell a byte offset lies in
CellOf(offset) == offset \div UnitBytes + 1

\* C37: disjoint positional writes.  Every buffer a worker writes for its
\* range [start, end] lands at its absolute offset, which lies within
\* [start, end], and changes no other part of the file; so a download of T
\* bytes into a new or emptied file that completes leaves the T bytes of the
\* remote content, in whatever order the responses arrived.
C37_DisjointWrites ==
  /\ [][\A w \in WorkerIds :
          Writes(w) =>
            /\ workers[w].range.start <= workers[w].offset
            /\ workers[w].offset + UnitBytes - 1 <= workers[w].range.end
            /\ Len(fileCells') >= CellOf(workers[w].offset)
            /\ fileCells'[CellOf(workers[w].offset)] =
                 RemoteCell(workers[w].offset \div UnitBytes)
            /\ \A i \in 1..Len(fileCells) :
                 i # CellOf(workers[w].offset) => fileCells'[i] = fileCells[i]]_allVars
  /\ []((DlResolved /\ TotalKnown /\ plan # <<>> /\ plan[1].start = 0
           /\ (dlOpts.mode = "overwrite" \/ SizeAtStart = 0)) =>
          fileCells = RemoteContent)

\* ------------------------------------------------------------------ C38
\* Promise.all has resolved in this step: the last worker has returned
LastWorkerReturns ==
  /\ dlpc = "running"
  /\ dlpc' = "closing"
  /\ dlOutcome'.state = "resolved"

\* C38: accurate final progress.  A download of known total T that has
\* transferred data and completed has emitted, after the last write, a final
\* snapshot with downloadedBytes = T, totalBytes = T and percentage = 100, in
\* every mode and for any number of workers; the counter starts at the start
\* offset, which is the size on disk in mode 'resume' and 0 otherwise.
C38_FinalProgress ==
  /\ []((DlResolved /\ TotalKnown /\ plan # <<>>) =>
          /\ downloadedBytes = T
          /\ progress.reported
          /\ progress.downloadedBytes = T
          /\ progress.totalBytes = Some(T)
          /\ progress.percentage = Some(1000)
          /\ \A w \in DOMAIN workers : workers[w].pc = "done")
  /\ [][/\ LastWorkerReturns =>
             /\ progress' = Notified(progress, downloadedBytes, dlOpts.sizeBytes)
             /\ downloadedBytes' = downloadedBytes
             /\ fileCells' = fileCells
        /\ (dlpc = "priming" /\ dlpc' = "running") =>
             /\ downloadedBytes' = plan'[1].start
             /\ downloadedBytes' =
                  IF dlOpts.mode = "resume" THEN Len(fileCells') * UnitBytes ELSE 0]_allVars

\* a resume of one unit on disk out of three, with two workers, has
\* completed: the final snapshot counts the unit on disk and reports 100 %
C38_Witness ==
  /\ DlResolved
  /\ dlOpts.mode = "resume"
  /\ SizeAtStart = UnitBytes
  /\ T = 3 * UnitBytes
  /\ Len(workers) = 2
  /\ progress.downloadedBytes = T
  /\ progress.totalBytes = Some(T)
  /\ progress.percentage = Some(1000)

\* ------------------------------------------------------------------ C39
\* a worker of the download has failed
WorkerFailed == \E w \in DOMAIN workers : workers[w].pc = "failed"

\* C39: no use after close.  No worker issues a write on the file handle
\* once the handle has been closed and the call has settled, and no progress
\* snapshot is emitted then; once one of several workers has failed, the
\* other workers write no more.
C39_NoUseAfterClose ==
  /\ [](writesAfterClose = 0)
  /\ [][/\ handle.state = "closed" => progress' = progress /\ fileCells' = fileCells
        /\ WorkerFailed => fileCells' = fileCells /\ downloadedBytes' = downloadedBytes]_allVars

\* ------------------------------------------------------------------ C40
\* resolveNuxtPayload (details.ts).  A JSON value is its type, its number,
\* the identity of the object (the index of the payload entry it is, Fresh
\* for an object built by the resolution) and, for arrays and records, its
\* entries in order, each a key (none for arrays) and a value.
MaxEntries == 3        \* longest payload array

Fresh == 0 - 1
NValue(t, n, id, c) == [t |-> t, n |-> n, id |-> id, c |-> c]
NNumber(n) == NValue("number", n, Fresh, <<>>)
NString == NValue("string", 0, Fresh, <<>>)
NEntry(k, v) == [k |-> k, v |-> v]
NRecord(id, c) == NValue("record", 0, id, c)
NArray(id, c) == NValue("array", 0, id, c)

\* isRecord(value)
isRecord(value) == value.t = "record"

\* the engine's limit on nested calls; no resolution that ends needs as many
MaxCallDepth == 4 * MaxEntries + 4
StackOverflow ==
  [name |-> "RangeError", message |-> <<"Maximum call stack size exceeded">>]

\* numericCache: per index, whether it is set and to what
EmptyCache(payload) == [i \in 0..(Len(payload) - 1) |-> [has |-> FALSE, v |-> NString]]

\* typeof value === 'number' && Number.isInteger(value) && value >= 0 &&
\* value < payload.length
IsReference(payload, value) ==
  value.t = "number" /\ value.n >= 0 /\ value.n < Len(payload)

RECURSIVE resolveValue(_, _, _, _, _)
RECURSIVE resolveEntries(_, _, _, _, _)

\* resolveValue(value), with the numericCache and visitedObjects it finds
\* and the depth of the call; it yields the value, the cache it leaves, and
\* whether the call stack overflowed.  Objects built by the resolution are
\* never ancestors of themselves: visitedObjects matters for payload entries.
resolveValue(payload, value, cache, visited, depth) ==
  IF depth > MaxCallDepth
  THEN [v |-> NString, cache |-> cache, overflow |-> TRUE]
  ELSE IF IsReference(payload, value)
  THEN IF cache[value.n].has
       THEN [v |-> cache[value.n].v, cache |-> cache, overflow |-> FALSE]
       ELSE LET r == resolveValue(payload, payload[value.n + 1], cache, visited,
                                  depth + 1)
            IN IF r.overflow THEN r
               ELSE [v |-> r.v,
                     cache |-> [r.cache EXCEPT ![value.n] = [has |-> TRUE, v |-> r.v]],
                     overflow |-> FALSE]
  ELSE IF value.t \in {"array", "record"}
  THEN IF value.id \in visited
       THEN [v |-> NValue(value.t, 0, Fresh, <<>>), cache |-> cache,
             overflow |-> FALSE]
       ELSE LET r == resolveEntries(payload, value.c, cache,
                                    IF value.id = Fresh THEN visited
                                    ELSE visited \cup {value.id},
                                    depth + 1)
            IN [v |-> NValue(value.t, 0, Fresh, r.c), cache |-> r.cache,
                overflow |-> r.overflow]
  ELSE [v |-> value, cache |-> cache, overflow |-> FALSE]

\* value.map(resolveValue) and the loop over Object.entries(value)
resolveEntries(payload, entries, cache, visited, depth) ==
  IF entries = <<>>
  THEN [c |-> <<>>, cache |-> cache, overflow |-> FALSE]
  ELSE LET first == resolveValue(payload, Head(entries).v, cache, visited, depth)
       IN IF first.overflow
          THEN [c |-> <<>>, cache |-> first.cache, overflow |-> TRUE]
          ELSE LET rest == resolveEntries(payload, Tail(entries), first.cache,
                                          visited, depth)
               IN [c |-> <<NEntry(Head(entries).k, first.v)>> \o rest.c,
                   cache |-> rest.cache, overflow |-> rest.overflow]

RECURSIVE extractRecords(_, _, _)
\* the loop over the payload that fills extracts: every record entry, its
\* values resolved
extractRecords(payload, i, cache) ==
  IF i > Len(payload)
  THEN [extracts |-> <<>>, cache |-> cache, overflow |-> FALSE]
  ELSE IF ~isRecord(payload[i])
  THEN extractRecords(payload, i + 1, cache)
  ELSE LET entry == resolveEntries(payload, payload[i].c, cache, {}, 1)
       IN IF entry.overflow
          THEN [extracts |-> <<>>, cache |-> entry.cache, overflow |-> TRUE]
          ELSE LET rest == extractRecords(payload, i + 1, entry.cache)
               IN [extracts |-> <<NRecord(Fresh, entry.c)>> \o rest.extracts,
                   cache |-> rest.cache, overflow |-> rest.overflow]

\* obj[key], or a value that is neither array nor record when it is missing
Property(obj, key) ==
  LET at == { i \in 1..Len(obj.c) : obj.c[i].k = key }
  IN IF at = {} THEN [has |-> FALSE, v |-> NString]
     ELSE [has |-> TRUE, v |-> obj.c[CHOOSE i \in at : TRUE].v]

NuxtReturned(value) == [state |-> "returned", value |-> value]
NuxtThrown(error) == [state |-> "thrown", error |-> error]

\* key.startsWith('$s'), and key.slice(2)
StateKeys == {"$sTitle"}
Sliced(key) == IF key = "$sTitle" THEN "Title" ELSE key

\* the entries of resolvedTarget whose key starts with '$s', renamed
Normalized(target) ==
  LET keep == { i \in 1..Len(target.c) : target.c[i].k \in StateKeys }
  IN { NEntry(Sliced(target.c[i].k), target.c[i].v) : i \in keep }

\* resolveNuxtPayload(payload) for a payload that is an array
resolveNuxtPayload(payload) ==
  LET ex == extractRecords(payload, 1, EmptyCache(payload))
  IN IF ex.overflow THEN NuxtThrown(StackOverflow)
     ELSE IF ex.extracts = <<>>
     THEN NuxtThrown(MovieboxApiError(<<"Unable to resolve Nuxt payload entries.">>))
     ELSE LET state == Property(ex.extracts[1], "state")
          IN IF ~state.has
             THEN NuxtThrown(MovieboxApiError(<<"Nuxt state did not include expected structure.">>))
             ELSE IF state.v.t # "array"
             THEN NuxtThrown(MovieboxApiError(<<"Nuxt state payload is not an array.">>))
             ELSE IF Len(state.v.c) < 2 \/ ~isRecord(state.v.c[2].v)
             THEN NuxtThrown(MovieboxApiError(<<"Nuxt state missing detail payload.">>))
             ELSE LET target == resolveValue(payload, state.v.c[2].v, ex.cache, {}, 1)
                  IN IF target.overflow THEN NuxtThrown(StackOverflow)
                     ELSE IF ~isRecord(target.v)
                     THEN NuxtThrown(MovieboxApiError(<<"Nuxt state payload is not a record.">>))
                     ELSE NuxtReturned(Normalized(target.v))

\* what an entry of a payload of n entries can be, but for its identity: a
\* number (a reference when it is below n), a string, a record with one key
\* and an array of two elements, each holding numbers
NuxtShapes ==
  { NNumber(k) : k \in 0..MaxEntries } \cup {NString}
    \cup { NRecord(Fresh, <<NEntry(key, NNumber(a))>>) :
             key \in {"state", "$sTitle"}, a \in 0..(MaxEntries - 1) }
    \cup { NArray(Fresh, <<NEntry("", NNumber(a)), NEntry("", NNumber(b))>>) :
             a, b \in 0..(MaxEntries - 1) }

\* the entry at index i: an array or record is the object of that index
AtIndex(shape, i) ==
  IF shape.t \in {"array", "record"} THEN [shape EXCEPT !.id = i] ELSE shape

\* the payload arrays of at most maxLength entries
NuxtPayloads(maxLength) ==
  UNION { { [i \in 1..n |-> AtIndex(f[i], i - 1)] : f \in [1..n -> NuxtShapes] } :
            n \in 1..maxLength }

\* a detail page has been fetched and its payload parsed
NuxtInit ==
  /\ baseUrls = <<0>>
  /\ retryPolicy = [maxAttempts |-> PolicyMaxAttempts(Undefined, Undefined),
                    shouldRetryError |-> "default", shouldRetryResponse |-> "default"]
  /\ dispatcher = NoDispatcher
  /\ retryOptions = OptionsNotRecorded
  /\ SessionFields
  /\ RangeIdle
  /\ DlIdle
  /\ nuxtPayload \in NuxtPayloads(MaxEntries)
  /\ nuxtOutcome = [state |-> "idle"]

\* resolveNuxtPayload(payload) runs to its end
ResolveNuxt ==
  /\ nuxtOutcome.state = "idle"
  /\ nuxtOutcome' = resolveNuxtPayload(nuxtPayload)
  /\ UNCHANGED <<vars, rangeVars, dlVars, nuxtPayload>>

NuxtNext == ResolveNuxt

NuxtSpec == NuxtInit /\ [][NuxtNext]_allVars

RECURSIVE FollowReferences(_, _, _)
\* following the numbers from entry i (0-based) for the given number of steps
\* stays on references
FollowReferences(payload, i, steps) ==
  IF steps = 0 THEN TRUE
  ELSE /\ IsReference(payload, payload[i + 1])
       /\ FollowReferences(payload, payload[i + 1].n, steps - 1)

\* some entries reference each other in a cycle of numbers only
NumericCycle(payload) ==
  \E i \in 0..(Len(payload) - 1) : FollowReferences(payload, i, Len(payload) + 1)

\* C40: detail-state resolution terminates.  For every payload array,
\* resolveNuxtPayload returns or throws a MovieboxApiError, also when
\* entries reference each other in a cycle, through objects and arrays or
\* through numbers only.
C40_ResolutionTerminates ==
  nuxtOutcome.state # "idle" =>
    \/ nuxtOutcome.state = "returned"
    \/ nuxtOutcome.state = "thrown" /\ IsMovieboxApiError(nuxtOutcome.error)

====
